---------------------------- MODULE Spec2Model ----------------------------
(***************************************************************************)
(* Model of the normalization and validation pipeline of the audience      *)
(* filter agent: app/agent/utils.py (canonicalizer, value normalizer,      *)
(* validator) and app/agent/nodes/validation_node.py (orchestrator).       *)
(*                                                                         *)
(* Python text is modelled by TLA+ strings and the str methods are         *)
(* computed character by character.  Python values are tagged records      *)
(* [t, s, n, l]: t is the Python type name, s the text of a str (or the    *)
(* marker "inf"/"nan" of a non-finite float), n the number (floats are     *)
(* kept in tenths, so 10.5 is n = 105; a bool is 0 or 1) and l the         *)
(* elements of a list.                                                     *)
(***************************************************************************)
EXTENDS Integers, Sequences, FiniteSets, TLC

(***************************************************************************)
(* Bounds of the model.                                                    *)
(***************************************************************************)
\* longest batch of curated raw candidates handed to validation_node
MaxLen == 2

(***************************************************************************)
(* Python str primitives.                                                  *)
(***************************************************************************)
Upper == <<"A","B","C","D","E","F","G","H","I","J","K","L","M",
           "N","O","P","Q","R","S","T","U","V","W","X","Y","Z">>
Lower == <<"a","b","c","d","e","f","g","h","i","j","k","l","m",
           "n","o","p","q","r","s","t","u","v","w","x","y","z">>
Digits == <<"0","1","2","3","4","5","6","7","8","9">>
Whitespace == {" ", "\t", "\n"}

CharAt(s, i) == SubSeq(s, i, i)

IsDigit(c) == \E d \in 1..10 : Digits[d] = c

DigitVal(c) == (CHOOSE d \in 1..10 : Digits[d] = c) - 1

LowerChar(c) ==
  IF \E k \in 1..26 : Upper[k] = c
    THEN Lower[CHOOSE k \in 1..26 : Upper[k] = c]
    ELSE c

\* str.lower()
RECURSIVE PyLower(_)
PyLower(s) ==
  IF Len(s) = 0 THEN ""
  ELSE LowerChar(CharAt(s, 1)) \o PyLower(SubSeq(s, 2, Len(s)))

RECURSIVE LStrip(_)
LStrip(s) ==
  IF Len(s) > 0 /\ CharAt(s, 1) \in Whitespace
    THEN LStrip(SubSeq(s, 2, Len(s)))
    ELSE s

RECURSIVE RStrip(_)
RStrip(s) ==
  IF Len(s) > 0 /\ CharAt(s, Len(s)) \in Whitespace
    THEN RStrip(SubSeq(s, 1, Len(s) - 1))
    ELSE s

\* str.strip()
PyStrip(s) == RStrip(LStrip(s))

\* str.replace(old, new) for a one-character old
RECURSIVE PyReplace(_, _, _)
PyReplace(s, old, new) ==
  IF Len(s) = 0 THEN ""
  ELSE (IF CharAt(s, 1) = old THEN new ELSE CharAt(s, 1))
         \o PyReplace(SubSeq(s, 2, Len(s)), old, new)

\* sub in s
PyIn(sub, s) ==
  \E k \in 0..(Len(s) - Len(sub)) : SubSeq(s, k + 1, k + Len(sub)) = sub

StartsWith(s, p) == Len(s) >= Len(p) /\ SubSeq(s, 1, Len(p)) = p


(***************************************************************************)
(* Python values.                                                          *)
(***************************************************************************)
PyVal(t, s, n, l) == [t |-> t, s |-> s, n |-> n, l |-> l]

PyNone == PyVal("NoneType", "", 0, <<>>)
PyStr(s) == PyVal("str", s, 0, <<>>)
PyInt(n) == PyVal("int", "", n, <<>>)
\* a finite float, given in tenths: PyFloat(105) is 10.5
PyFloat(n) == PyVal("float", "", n, <<>>)
FloatInf == PyVal("float", "inf", 0, <<>>)
FloatNan == PyVal("float", "nan", 0, <<>>)
PyBool(b) == PyVal("bool", "", IF b THEN 1 ELSE 0, <<>>)
PyList(l) == PyVal("list", "", 0, l)
\* a JSON object used as a value; its content is never inspected
PyDict == PyVal("dict", "", 0, <<>>)
\* the marker of a key that a candidate dictionary does not have
Absent == PyVal("absent", "", 0, <<>>)

IsStr(v) == v.t = "str"
IsList(v) == v.t = "list"
\* isinstance(v, bool)
IsBool(v) == v.t = "bool"

\* a raw candidate that is a JSON object
Candidate(f, o, v) == [t |-> "dict", field |-> f, operator |-> o, value |-> v]

\* dict.get(key, default) on a candidate's entry
Get(entry, default) == IF entry.t = "absent" THEN default ELSE entry

\* an outcome of a call: a returned value, or the message of a raised exception
Return(v) == [exc |-> "", msg |-> "", val |-> v]
\* exc is the exception class, msg is str(e)
Raise(exc, msg) == [exc |-> exc, msg |-> msg, val |-> PyNone]
Raised(r) == r.exc # ""

NoAttribute(v, attr) ==
  "'" \o v.t \o "' object has no attribute '" \o attr \o "'"

(***************************************************************************)
(* Tables kept as sequences of <<key, value>> pairs, in iteration order.   *)
(***************************************************************************)
HasKey(d, k) == \E j \in 1..Len(d) : d[j][1] = k

Lookup(d, k, default) ==
  IF HasKey(d, k) THEN d[CHOOSE j \in 1..Len(d) : d[j][1] = k][2] ELSE default

(***************************************************************************)
(* Field Catalog: data/supported_fields.json (load_supported_fields).      *)
(***************************************************************************)
config ==
  [ fields |-> << <<"customer_attributes", <<"gender", "joining_date">> >>,
                  <<"sales_engagement",
                    <<"total_orders", "total_sales", "store_rating",
                      "latest_purchase">> >>,
                  <<"geographic_attributes", <<"city", "country">> >> >>,
    operators |-> <<"=", "!=", "<", ">", "<=", ">=", "between">>,
    field_types |-> << <<"gender", "string">>,
                       <<"joining_date", "date">>,
                       <<"total_orders", "integer">>,
                       <<"total_sales", "float">>,
                       <<"store_rating", "float">>,
                       <<"latest_purchase", "date">>,
                       <<"city", "string">>,
                       <<"country", "string">> >>,
    valid_operators_per_type |->
      << <<"string", <<"=", "!=">> >>,
         <<"integer", <<"=", "!=", "<", ">", "<=", ">=", "between">> >>,
         <<"float", <<"=", "!=", "<", ">", "<=", ">=", "between">> >>,
         <<"date", <<"=", "!=", "<", ">", "<=", ">=", "between">> >>,
         <<"boolean", <<"=", "!=">> >> >> ]

load_supported_fields == config

(***************************************************************************)
(* Value Mapping Table: data/value_mappings.json, read by                  *)
(* load_value_mappings.  An Arabic letter is written as one symbol, which  *)
(* str.lower() leaves alone and which no Latin text contains.              *)
(***************************************************************************)
ArRiyadh == "@#$^@&"
ArJeddah == "*~+"
ArDubai == "~?^"
ArMale == ";|$"
ArFemale == "@%{}"

mappings ==
  [ gender_mappings |-> << <<"male", "Male">>, <<"m", "Male">>,
                           <<ArMale, "Male">>,
                           <<"female", "Female">>, <<"f", "Female">>,
                           <<ArFemale, "Female">> >>,
    country_mappings |-> << <<"saudi", "Saudi Arabia">>,
                            <<"uae", "United Arab Emirates">> >>,
    city_mappings |-> << <<ArRiyadh, "Riyadh">>,
                         <<ArJeddah, "Jeddah">>,
                         <<ArDubai, "Dubai">> >>,
    boolean_mappings |-> << <<"true", TRUE>>, <<"yes", TRUE>>,
                            <<"false", FALSE>>, <<"no", FALSE>> >>,
    month_names |-> << <<"january", "01">>, <<"jan", "01">> >> ]

load_value_mappings == mappings

(***************************************************************************)
(* Canonicalizer.                                                          *)
(***************************************************************************)
field_aliases ==
  << <<"sex", "gender">>,
     <<"join_date", "joining_date">>,
     <<"signup_date", "joining_date">>,
     <<"registration_date", "joining_date">>,
     <<"orders", "total_orders">>,
     <<"order_count", "total_orders">>,
     <<"num_orders", "total_orders">>,
     <<"sales", "total_sales">>,
     <<"revenue", "total_sales">>,
     <<"rating", "store_rating">>,
     <<"last_order", "latest_purchase">>,
     <<"last_purchase", "latest_purchase">> >>

\* normalize_field_name with the spaces replaced before the text is stripped
normalize_field_name_ReplaceBeforeStrip(field) ==
  IF ~IsStr(field) THEN Raise("AttributeError", NoAttribute(field, "lower"))
  ELSE LET f == PyStrip(PyReplace(PyLower(field.s), " ", "_"))
       IN Return(PyStr(Lookup(field_aliases, f, f)))

\* normalize_field_name(field); field is any Python value
normalize_field_name(field) ==
  IF ~IsStr(field) THEN Raise("AttributeError", NoAttribute(field, "lower"))
  ELSE LET f == PyReplace(PyStrip(PyLower(field.s)), " ", "_")
       IN Return(PyStr(Lookup(field_aliases, f, f)))

operator_aliases ==
  << <<"equals", "=">>, <<"equal", "=">>, <<"is", "=">>,
     <<"not equals", "!=">>, <<"not equal", "!=">>, <<"is not", "!=">>,
     <<"greater than", ">">>, <<"more than", ">">>, <<"gt", ">">>,
     <<"less than", "<">>, <<"lt", "<">>,
     <<"greater than or equal", ">=">>, <<"at least", ">=">>,
     <<"gte", ">=">>,
     <<"less than or equal", "<=">>, <<"at most", "<=">>, <<"lte", "<=">>,
     <<"in range", "between">>, <<"range", "between">> >>

\* normalize_operator with the alias looked up under the operator as written
normalize_operator_CaseSensitive(operator) ==
  IF ~IsStr(operator) THEN Raise("AttributeError", NoAttribute(operator, "strip"))
  ELSE LET op == PyStrip(operator.s)
       IN Return(PyStr(Lookup(operator_aliases, op, op)))

\* normalize_operator with the lowered text as the default of the lookup
normalize_operator_ReturnsLowered(operator) ==
  IF ~IsStr(operator) THEN Raise("AttributeError", NoAttribute(operator, "strip"))
  ELSE LET op == PyStrip(operator.s)
       IN Return(PyStr(Lookup(operator_aliases, PyLower(op), PyLower(op))))

\* normalize_operator(operator); operator is any Python value
normalize_operator(operator) ==
  IF ~IsStr(operator) THEN Raise("AttributeError", NoAttribute(operator, "strip"))
  ELSE LET op == PyStrip(operator.s)
       IN Return(PyStr(Lookup(operator_aliases, PyLower(op), op)))


(***************************************************************************)
(* Python numeric conversions: float(x) and int(f).                        *)
(***************************************************************************)
AllDigits(s) == \A k \in 1..Len(s) : IsDigit(CharAt(s, k))

RECURSIVE ParseNat(_)
ParseNat(s) ==
  IF Len(s) = 0 THEN 0
  ELSE 10 * ParseNat(SubSeq(s, 1, Len(s) - 1)) + DigitVal(CharAt(s, Len(s)))

\* the text after the sign: "inf", "infinity", "nan", or digits[.digits]
\* (exponents and digit separators are outside the modelled grammar, and
\* the fraction is kept to its first digit)
FloatOfUnsigned(body, sign) ==
  LET low == PyLower(body)
      dots == {k \in 1..Len(body) : CharAt(body, k) = "."}
      dot == IF dots = {} THEN Len(body) + 1
             ELSE CHOOSE k \in dots : \A j \in dots : k <= j
      ip == SubSeq(body, 1, dot - 1)
      fp == SubSeq(body, dot + 1, Len(body))
  IN IF low \in {"inf", "infinity"} THEN Return(FloatInf)
     ELSE IF low = "nan" THEN Return(FloatNan)
     ELSE IF /\ AllDigits(ip) /\ AllDigits(fp) /\ Len(ip) + Len(fp) > 0
       THEN Return(PyFloat(sign * (10 * ParseNat(ip)
              + (IF Len(fp) > 0 THEN DigitVal(CharAt(fp, 1)) ELSE 0))))
     ELSE Raise("ValueError", "could not convert string to float")

\* float(v)
PyFloatOf(v) ==
  CASE v.t = "float" -> Return(v)
    [] v.t \in {"int", "bool"} -> Return(PyFloat(10 * v.n))
    [] v.t = "str" ->
         LET body == PyStrip(v.s)
         IN IF Len(body) > 0 /\ CharAt(body, 1) = "-"
              THEN FloatOfUnsigned(SubSeq(body, 2, Len(body)), -1)
            ELSE IF Len(body) > 0 /\ CharAt(body, 1) = "+"
              THEN FloatOfUnsigned(SubSeq(body, 2, Len(body)), 1)
            ELSE FloatOfUnsigned(body, 1)
    [] OTHER -> Raise("TypeError",
                  "float() argument must be a string or a real number")

\* int(f) rounding down (math.floor) instead of truncating
PyIntOfFloat_Floors(f) ==
  IF f.s = "inf"
    THEN Raise("OverflowError", "cannot convert float infinity to integer")
  ELSE IF f.s = "nan"
    THEN Raise("ValueError", "cannot convert float NaN to integer")
  ELSE Return(PyInt(f.n \div 10))

\* int(f) for a float f: truncation toward zero
PyIntOfFloat(f) ==
  IF f.s = "inf"
    THEN Raise("OverflowError", "cannot convert float infinity to integer")
  ELSE IF f.s = "nan"
    THEN Raise("ValueError", "cannot convert float NaN to integer")
  ELSE Return(PyInt(IF f.n >= 0 THEN f.n \div 10 ELSE -((-f.n) \div 10)))

(***************************************************************************)
(* Calendar: dates are day numbers counted from 1970-01-01.                *)
(***************************************************************************)
\* datetime.min, 0001-01-01
MinDay == -719162

days_from_civil(y, m, d) ==
  LET yy == IF m <= 2 THEN y - 1 ELSE y
      era == yy \div 400
      yoe == yy - era * 400
      doy == (153 * (IF m > 2 THEN m - 3 ELSE m + 9) + 2) \div 5 + d - 1
      doe == yoe * 365 + yoe \div 4 - yoe \div 100 + doy
  IN era * 146097 + doe - 719468

civil_from_days(z0) ==
  LET z == z0 + 719468
      era == z \div 146097
      doe == z - era * 146097
      yoe == (doe - doe \div 1460 + doe \div 36524 - doe \div 146096) \div 365
      doy == doe - (365 * yoe + yoe \div 4 - yoe \div 100)
      mp == (5 * doy + 2) \div 153
      d == doy - (153 * mp + 2) \div 5 + 1
      m == IF mp < 10 THEN mp + 3 ELSE mp - 9
  IN [y |-> yoe + era * 400 + (IF m <= 2 THEN 1 ELSE 0), m |-> m, d |-> d]

ValidDate(y, m, d) ==
  /\ y \in 1..9999 /\ m \in 1..12 /\ d >= 1
  /\ civil_from_days(days_from_civil(y, m, d)) = [y |-> y, m |-> m, d |-> d]

Pad2(n) == IF n < 10 THEN "0" \o ToString(n) ELSE ToString(n)

\* strftime("%Y-%m-%d")
strftime(day) ==
  LET c == civil_from_days(day)
  IN ToString(c.y) \o "-" \o Pad2(c.m) \o "-" \o Pad2(c.d)

\* the text is YYYY-MM-DD
IsIsoShape(s) ==
  /\ Len(s) = 10
  /\ CharAt(s, 5) = "-" /\ CharAt(s, 8) = "-"
  /\ AllDigits(SubSeq(s, 1, 4)) /\ AllDigits(SubSeq(s, 6, 7))
  /\ AllDigits(SubSeq(s, 9, 10))

\* dateutil.parser.parse(s, fuzzy=True) on the shapes the model feeds it: an
\* ISO date, a bare day number (completed with today's year and month), and
\* text without any date token, which the parser refuses
dateutil_parse(s, now) ==
  IF IsIsoShape(s)
    THEN LET y == ParseNat(SubSeq(s, 1, 4))
             m == ParseNat(SubSeq(s, 6, 7))
             d == ParseNat(SubSeq(s, 9, 10))
         IN IF ValidDate(y, m, d) THEN Return(PyInt(days_from_civil(y, m, d)))
            ELSE Raise("ParserError", "day is out of range for month")
  ELSE IF Len(s) \in 1..2 /\ AllDigits(s)
    THEN LET c == civil_from_days(now)
         IN IF ValidDate(c.y, c.m, ParseNat(s))
              THEN Return(PyInt(days_from_civil(c.y, c.m, ParseNat(s))))
              ELSE Raise("ParserError", "day is out of range for month")
  ELSE Raise("ParserError", "String does not contain a date")

(***************************************************************************)
(* Date resolution: parse_date.                                            *)
(***************************************************************************)
\* the last index of the run of digits that starts at i
RunEnd(s, i) ==
  CHOOSE e \in i..Len(s) :
    /\ AllDigits(SubSeq(s, i, e))
    /\ (e = Len(s) \/ ~IsDigit(CharAt(s, e + 1)))

\* the first index from k on that holds no whitespace (Len(s) + 1 if none)
SkipSpace(s, k) ==
  CHOOSE j \in k..(Len(s) + 1) :
    /\ \A h \in k..(j - 1) : CharAt(s, h) \in Whitespace
    /\ (j = Len(s) + 1 \/ CharAt(s, j) \notin Whitespace)

\* (\d+)\s*days? with re.IGNORECASE matches from index i
DaysMatchAt(s, i) ==
  /\ IsDigit(CharAt(s, i))
  /\ LET k == SkipSpace(s, RunEnd(s, i) + 1)
     IN k + 2 <= Len(s) /\ PyLower(SubSeq(s, k, k + 2)) = "day"

\* re.search: the leftmost match, or 0 when there is none
DaysSearch(s) ==
  LET starts == {i \in 1..Len(s) : DaysMatchAt(s, i)}
  IN IF starts = {} THEN 0 ELSE CHOOSE i \in starts : \A j \in starts : i <= j

\* pattern.sub(month_num, date_str) with re.IGNORECASE on an escaped name
RECURSIVE ReSubIgnoreCase(_, _, _)
ReSubIgnoreCase(s, name, num) ==
  IF Len(s) < Len(name) THEN s
  ELSE IF PyLower(SubSeq(s, 1, Len(name))) = PyLower(name)
    THEN num \o ReSubIgnoreCase(SubSeq(s, Len(name) + 1, Len(s)), name, num)
  ELSE CharAt(s, 1) \o ReSubIgnoreCase(SubSeq(s, 2, Len(s)), name, num)

RECURSIVE ReplaceMonths(_, _)
ReplaceMonths(s, months) ==
  IF Len(months) = 0 THEN s
  ELSE ReplaceMonths(ReSubIgnoreCase(s, months[1][1], months[1][2]),
                     Tail(months))

\* parse_date(date_str); now is the day datetime.now() reports
parse_date(date_str, now) ==
  LET s == PyStrip(date_str)
      at == IF PyIn("last", PyLower(s)) THEN DaysSearch(s) ELSE 0
      days == ParseNat(SubSeq(s, at, RunEnd(s, at)))
      subst == ReplaceMonths(s, load_value_mappings.month_names)
      parsed == dateutil_parse(subst, now)
  IN IF at > 0
       THEN IF now - days < MinDay
              THEN Raise("OverflowError", "date value out of range")
              ELSE Return(PyStr(strftime(now - days)))
     ELSE IF Raised(parsed) THEN Return(PyStr(subst))
     ELSE Return(PyStr(strftime(parsed.val.n)))

(***************************************************************************)
(* Value Normalizer: normalize_value.                                      *)
(***************************************************************************)
\* the first index, in iteration order, among the entries that hit (0 if none)
FirstHit(hits) ==
  IF hits = {} THEN 0 ELSE CHOOSE j \in hits : \A h \in hits : j <= h

\* the numeric tail of normalize_value (lines 147-160)
CoerceNumber(value, field_type) ==
  LET f == PyFloatOf(value)
      n == PyIntOfFloat(f.val)
  IN IF field_type = "integer" /\ ~IsBool(value)
          /\ ~Raised(f) /\ n.exc \notin {"ValueError", "TypeError"}
       THEN n
     ELSE IF field_type = "float" /\ ~Raised(f) THEN f
     ELSE Return(value)

\* normalize_value with the gender table looked up under the value as written
normalize_value_GenderAsWritten(field, value, field_type, now) ==
  IF ~IsStr(value) THEN CoerceNumber(value, field_type)
  ELSE
    LET v == PyStrip(value.s)
        low == PyLower(v)
        m == load_value_mappings
        country ==
          FirstHit({j \in 1..Len(m.country_mappings) :
                      PyIn(PyLower(m.country_mappings[j][1]), low)})
        city ==
          FirstHit({j \in 1..Len(m.city_mappings) :
                      \/ PyIn(PyLower(m.city_mappings[j][1]), low)
                      \/ PyIn(low, PyLower(m.city_mappings[j][1]))})
    IN IF field = "gender" /\ HasKey(m.gender_mappings, v)
         THEN Return(PyStr(Lookup(m.gender_mappings, v, "")))
       ELSE IF field = "country" /\ country > 0
         THEN Return(PyStr(m.country_mappings[country][2]))
       ELSE IF field = "city" /\ city > 0
         THEN Return(PyStr(m.city_mappings[city][2]))
       ELSE IF field_type = "boolean" /\ HasKey(m.boolean_mappings, low)
         THEN Return(PyBool(Lookup(m.boolean_mappings, low, FALSE)))
       ELSE IF field_type = "date" THEN parse_date(v, now)
       ELSE CoerceNumber(PyStr(v), field_type)

\* normalize_value(field, value, field_type); now is the day of datetime.now()
normalize_value(field, value, field_type, now) ==
  IF ~IsStr(value) THEN CoerceNumber(value, field_type)
  ELSE
    LET v == PyStrip(value.s)
        low == PyLower(v)
        m == load_value_mappings
        country ==
          FirstHit({j \in 1..Len(m.country_mappings) :
                      PyIn(PyLower(m.country_mappings[j][1]), low)})
        city ==
          FirstHit({j \in 1..Len(m.city_mappings) :
                      \/ PyIn(PyLower(m.city_mappings[j][1]), low)
                      \/ PyIn(low, PyLower(m.city_mappings[j][1]))})
    IN IF field = "gender" /\ HasKey(m.gender_mappings, low)
         THEN Return(PyStr(Lookup(m.gender_mappings, low, "")))
       ELSE IF field = "country" /\ country > 0
         THEN Return(PyStr(m.country_mappings[country][2]))
       ELSE IF field = "city" /\ city > 0
         THEN Return(PyStr(m.city_mappings[city][2]))
       ELSE IF field_type = "boolean" /\ HasKey(m.boolean_mappings, low)
         THEN Return(PyBool(Lookup(m.boolean_mappings, low, FALSE)))
       ELSE IF field_type = "date" THEN parse_date(v, now)
       ELSE CoerceNumber(PyStr(v), field_type)

(***************************************************************************)
(* Validator: validate_filter.                                             *)
(***************************************************************************)
RECURSIVE Concat(_)
Concat(lists) ==
  IF Len(lists) = 0 THEN <<>> ELSE lists[1][2] \o Concat(Tail(lists))

InList(x, l) == \E j \in 1..Len(l) : l[j] = x

\* str(v) inside an f-string
PyFormat(v) ==
  CASE v.t = "str" -> v.s
    [] v.t = "NoneType" -> "None"
    [] v.t = "int" -> ToString(v.n)
    [] OTHER -> "<" \o v.t \o ">"

\* the text of v when v is a str, and no text of any table otherwise
KeyOf(v) == IF IsStr(v) THEN v.s ELSE "<" \o v.t \o ">"

\* value is None or (isinstance(value, str) and not value.strip())
IsMissing(value) ==
  value.t = "NoneType" \/ (IsStr(value) /\ PyStrip(value.s) = "")

UnsupportedField(field) == "Unsupported field: " \o PyFormat(field)
UnsupportedOperator(operator) == "Unsupported operator: " \o PyFormat(operator)
TypeMismatch(field, operator, field_type) ==
  "Operator '" \o PyFormat(operator) \o "' is not valid for field '"
    \o PyFormat(field) \o "' of type '" \o field_type \o "'"
MissingValue(field) == "Missing value for field: " \o PyFormat(field)
BetweenNeedsPair(field) ==
  "Operator 'between' requires a list of two values for field: "
    \o PyFormat(field)

\* validate_filter with the rules chained by elif: the first error ends it
validate_filter_ShortCircuits(filter_dict, cfg) ==
  LET field == filter_dict.field
      operator == filter_dict.operator
      value == filter_dict.value
      all_fields == Concat(cfg.fields)
      field_type == Lookup(cfg.field_types, KeyOf(field), "")
      valid_ops == Lookup(cfg.valid_operators_per_type, field_type, <<>>)
  IN IF ~InList(KeyOf(field), all_fields) THEN <<UnsupportedField(field)>>
     ELSE IF ~InList(KeyOf(operator), cfg.operators)
       THEN <<UnsupportedOperator(operator)>>
     ELSE IF field_type # "" /\ ~InList(KeyOf(operator), valid_ops)
       THEN <<TypeMismatch(field, operator, field_type)>>
     ELSE IF IsMissing(value) THEN <<MissingValue(field)>>
     ELSE IF operator = PyStr("between")
               /\ (~IsList(value) \/ Len(value.l) # 2)
       THEN <<BetweenNeedsPair(field)>>
     ELSE <<>>

\* validate_filter with the type check skipped for an unsupported operator
validate_filter_MismatchOnlyIfSupported(filter_dict, cfg) ==
  LET field == filter_dict.field
      operator == filter_dict.operator
      value == filter_dict.value
      all_fields == Concat(cfg.fields)
      field_type == Lookup(cfg.field_types, KeyOf(field), "")
      valid_ops == Lookup(cfg.valid_operators_per_type, field_type, <<>>)
  IN IF ~InList(KeyOf(field), all_fields) THEN <<UnsupportedField(field)>>
     ELSE
       (IF ~InList(KeyOf(operator), cfg.operators)
          THEN <<UnsupportedOperator(operator)>>
        ELSE IF field_type # "" /\ ~InList(KeyOf(operator), valid_ops)
          THEN <<TypeMismatch(field, operator, field_type)>> ELSE <<>>)
       \o (IF IsMissing(value) THEN <<MissingValue(field)>> ELSE <<>>)
       \o (IF operator = PyStr("between")
             /\ (~IsList(value) \/ Len(value.l) # 2)
          THEN <<BetweenNeedsPair(field)>> ELSE <<>>)

\* validate_filter without the early return of line 220
validate_filter_NoEarlyReturn(filter_dict, cfg) ==
  LET field == filter_dict.field
      operator == filter_dict.operator
      value == filter_dict.value
  IN (IF ~InList(KeyOf(field), Concat(cfg.fields))
        THEN <<UnsupportedField(field)>> ELSE <<>>)
     \o (IF ~InList(KeyOf(operator), cfg.operators)
        THEN <<UnsupportedOperator(operator)>> ELSE <<>>)
     \o (IF Lookup(cfg.field_types, KeyOf(field), "") # ""
           /\ ~InList(KeyOf(operator),
                      Lookup(cfg.valid_operators_per_type,
                             Lookup(cfg.field_types, KeyOf(field), ""), <<>>))
        THEN <<TypeMismatch(field, operator,
                            Lookup(cfg.field_types, KeyOf(field), ""))>>
        ELSE <<>>)
     \o (IF IsMissing(value) THEN <<MissingValue(field)>> ELSE <<>>)
     \o (IF operator = PyStr("between")
           /\ (~IsList(value) \/ Len(value.l) # 2)
        THEN <<BetweenNeedsPair(field)>> ELSE <<>>)

\* validate_filter with line 241 testing only isinstance(value, list)
validate_filter_AnyListIsPair(filter_dict, cfg) ==
  LET field == filter_dict.field
      operator == filter_dict.operator
      value == filter_dict.value
      field_type == Lookup(cfg.field_types, KeyOf(field), "")
      valid_ops == Lookup(cfg.valid_operators_per_type, field_type, <<>>)
  IN IF ~InList(KeyOf(field), Concat(cfg.fields))
       THEN <<UnsupportedField(field)>>
     ELSE
       (IF ~InList(KeyOf(operator), cfg.operators)
          THEN <<UnsupportedOperator(operator)>> ELSE <<>>)
       \o (IF field_type # "" /\ ~InList(KeyOf(operator), valid_ops)
          THEN <<TypeMismatch(field, operator, field_type)>> ELSE <<>>)
       \o (IF IsMissing(value) THEN <<MissingValue(field)>> ELSE <<>>)
       \o (IF operator = PyStr("between") /\ ~IsList(value)
          THEN <<BetweenNeedsPair(field)>> ELSE <<>>)

\* validate_filter(filter_dict, config)
validate_filter(filter_dict, cfg) ==
  LET field == filter_dict.field
      operator == filter_dict.operator
      value == filter_dict.value
      all_fields == Concat(cfg.fields)
      field_type == Lookup(cfg.field_types, KeyOf(field), "")
      valid_ops == Lookup(cfg.valid_operators_per_type, field_type, <<>>)
  IN IF ~InList(KeyOf(field), all_fields) THEN <<UnsupportedField(field)>>
     ELSE
       (IF ~InList(KeyOf(operator), cfg.operators)
          THEN <<UnsupportedOperator(operator)>> ELSE <<>>)
       \o (IF field_type # "" /\ ~InList(KeyOf(operator), valid_ops)
          THEN <<TypeMismatch(field, operator, field_type)>> ELSE <<>>)
       \o (IF IsMissing(value) THEN <<MissingValue(field)>> ELSE <<>>)
       \o (IF operator = PyStr("between")
             /\ (~IsList(value) \/ Len(value.l) # 2)
          THEN <<BetweenNeedsPair(field)>> ELSE <<>>)

(***************************************************************************)
(* Pipeline Orchestrator: the body of the loop of validation_node.         *)
(***************************************************************************)
\* [normalize_value(normalized_field, v, field_type) for v in value]
RECURSIVE NormalizeEach(_, _, _, _)
NormalizeEach(field, values, field_type, now) ==
  IF Len(values) = 0 THEN Return(PyList(<<>>))
  ELSE LET head == normalize_value(field, values[1], field_type, now)
           rest == NormalizeEach(field, Tail(values), field_type, now)
       IN IF Raised(head) THEN head
          ELSE IF Raised(rest) THEN rest
          ELSE Return(PyList(<<head.val>> \o rest.val.l))

\* lines 49-57: the value, element by element when it is a list
NormalizeRawValue(field, value, field_type, now) ==
  IF IsList(value) THEN NormalizeEach(field, value.l, field_type, now)
  ELSE normalize_value(field, value, field_type, now)

\* lines 59-64: the normalized filter out of the three normalized parts, or
\* the first exception raised on the way
NormalizedFilter(nf, no, nv) ==
  IF Raised(nf) THEN nf
  ELSE IF Raised(no) THEN no
  ELSE IF Raised(nv) THEN nv
  ELSE Return([field |-> nf.val, operator |-> no.val, value |-> nv.val])

\* lines 42-64 with the value normalized as a string whatever the field
NormalizeRest_IgnoresDeclaredType(filter_dict, nf, now) ==
  NormalizedFilter(
    nf,
    normalize_operator(Get(filter_dict.operator, PyStr(""))),
    NormalizeRawValue(nf.val.s, Get(filter_dict.value, PyNone), "string", now))

\* lines 42-64, once the field name nf is normalized
NormalizeRest(filter_dict, nf, now) ==
  NormalizedFilter(
    nf,
    normalize_operator(Get(filter_dict.operator, PyStr(""))),
    NormalizeRawValue(
      nf.val.s, Get(filter_dict.value, PyNone),
      Lookup(load_supported_fields.field_types, nf.val.s, "string"), now))

\* lines 38-64: the normalized filter of a candidate, or the exception raised
NormalizeCandidate(filter_dict, now) ==
  IF filter_dict.t # "dict"
    THEN Raise("AttributeError", NoAttribute(filter_dict, "get"))
  ELSE NormalizeRest(
         filter_dict,
         normalize_field_name(Get(filter_dict.field, PyStr(""))), now)

FilterPrefix(i) == "Filter " \o ToString(i + 1) \o ": "

RECURSIVE PrefixAll(_, _)
PrefixAll(i, errs) ==
  IF Len(errs) = 0 THEN <<>>
  ELSE <<FilterPrefix(i) \o errs[1]>> \o PrefixAll(i, Tail(errs))

ExceptionRecord(i, e) == FilterPrefix(i) \o "Validation exception - " \o e.msg

\* the loop body with line 80 run whatever filter_errors holds
Verdict_KeepsInvalid(i, normalized_filter, filter_errors) ==
  [filters |-> <<normalized_filter>>, errors |-> PrefixAll(i, filter_errors)]

\* lines 69-85: the filter is kept when the validator reported nothing
Verdict(i, normalized_filter, filter_errors) ==
  IF Len(filter_errors) > 0
    THEN [filters |-> <<>>, errors |-> PrefixAll(i, filter_errors)]
    ELSE [filters |-> <<normalized_filter>>, errors |-> <<>>]

\* the loop body with an except clause that records nothing
Outcome_SwallowsException(i, normalized) ==
  IF Raised(normalized) THEN [filters |-> <<>>, errors |-> <<>>]
  ELSE Verdict(i, normalized.val,
               validate_filter(normalized.val, load_supported_fields))

\* lines 66-95: validate the normalized filter, or record the exception
Outcome(i, normalized) ==
  IF Raised(normalized)
    THEN [filters |-> <<>>, errors |-> <<ExceptionRecord(i, normalized)>>]
    ELSE Verdict(i, normalized.val,
                 validate_filter(normalized.val, load_supported_fields))

\* lines 37-95 for the candidate at index i: what it appends to
\* validated_filters and to validation_errors
ProcessCandidate(filter_dict, i, now) ==
  Outcome(i, NormalizeCandidate(filter_dict, now))

(***************************************************************************)
(* Inputs: the raw candidates an upstream language model can hand over.    *)
(* They are JSON values, so a candidate need not be an object and its      *)
(* entries need not be text.                                               *)
(***************************************************************************)
RawFields ==
  { PyStr("Sex"), PyStr("gender"), PyStr(" Total Orders "), PyStr("rating"),
    PyStr("city"), PyStr("country"), PyStr("joining_date"),
    PyStr("email_open_rate"), PyNone, Absent }

RawOperators ==
  { PyStr("="), PyStr(" Is "), PyStr(">"), PyStr("between"),
    PyStr("in range"), PyStr("invalid_op"), PyNone, Absent }

RawValues ==
  { Absent, PyNone, PyStr(""), PyStr("  "), PyStr(" female "), PyStr("10"),
    PyStr("abc"), PyStr("inf"), PyStr("nan"), PyStr("2023-01-15"),
    PyStr("last 30 days"), PyInt(5), PyFloat(105), PyBool(TRUE), PyDict,
    PyList(<<PyInt(3), PyInt(5)>>),
    PyList(<<PyStr("a"), PyStr("b"), PyStr("c")>>),
    PyList(<<PyInt(5)>>), PyList(<<>>),
    PyList(<<PyStr("inf"), PyInt(1)>>),
    PyList(<<PyNone, PyStr("")>>) }

\* every candidate object over the raw entries, and candidates of other types
AllCandidates ==
  { Candidate(f, o, v) : f \in RawFields, o \in RawOperators, v \in RawValues }
    \cup { PyNone, PyStr("x"), PyList(<<>>) }

\* the candidates that batches are built from: one of each kind of outcome
BatchCandidates ==
  { Candidate(PyStr("sex"), PyStr("is"), PyStr("female")),
    Candidate(PyStr("rating"), PyStr("in range"),
              PyList(<<PyInt(3), PyInt(5)>>)),
    Candidate(PyStr("email_open_rate"), PyStr("="), PyStr("10%")),
    Candidate(PyStr("gender"), PyStr("invalid_op"), PyStr("")),
    Candidate(PyStr("total_orders"), PyStr(">"), PyStr("inf")),
    Candidate(PyStr("total_orders"), PyStr(">"), PyStr("abc")),
    Candidate(PyStr("city"), PyStr("="), PyStr("")),
    Candidate(PyStr("gender"), PyStr("="),
              PyList(<<PyStr("a"), PyStr("b"), PyStr("c")>>)),
    Candidate(PyStr("store_rating"), PyStr("between"), PyInt(5)),
    Candidate(PyStr("joining_date"), PyStr(">"), PyStr("last 30 days")),
    Candidate(PyStr("total_orders"), PyStr("="), Absent),
    PyNone }

SeqsUpTo(n, S) == UNION { [1..k -> S] : k \in 0..n }

\* the values of state["raw_filters"]: batches, single candidates, and the
\* values that are not lists (a missing key, None, a number, a text)
RawFilterInputs ==
  { PyList(q) : q \in SeqsUpTo(MaxLen, BatchCandidates) }
    \cup { PyList(<<c>>) : c \in AllCandidates }
    \cup { Absent, PyNone, PyInt(5), PyStr("ab") }

\* the values of state["errors"] on entry
ErrorInputs ==
  { Absent, PyList(<<>>), PyList(<<"Parsing error: no JSON">>) }

\* the days datetime.now() can report: 2026-11-04 and 2024-02-29
Days == { 20761, 19782 }

(***************************************************************************)
(* State: one invocation of validation_node.                               *)
(***************************************************************************)
VARIABLES
  state,              \* the agent state passed in: raw_filters and errors
  today,              \* the local date of the server clock
  pc,                 \* position in validation_node
  i,                  \* candidates consumed by the loop so far
  validated_filters,  \* the local list of line 33
  validation_errors,  \* the local list of line 34
  origin,             \* history: the index of the candidate of each filter
  result,             \* the returned state, once validation_node returned
  call,               \* a direct call of one function and what it returned
  requests,           \* the parse requests in flight, each with its own state
  process             \* what the server process keeps between requests

vars == <<state, today, pc, i, validated_filters, validation_errors, origin,
          result, call, requests, process>>

\* everything a direct call of one function leaves alone
node_vars == <<state, today, pc, i, validated_filters, validation_errors,
               origin, result, requests, process>>

NoResult == [returned |-> FALSE, validated_filters |-> <<>>, errors |-> <<>>]

\* state.get("raw_filters", []) and state.get("errors", [])
raw_filters == Get(state.raw_filters, PyList(<<>>))
errors == Get(state.errors, PyList(<<>>))

\* the items enumerate(raw_filters) yields: the elements of a list, the
\* characters of a text
RECURSIVE Chars(_)
Chars(s) ==
  IF Len(s) = 0 THEN <<>>
  ELSE <<PyStr(CharAt(s, 1))>> \o Chars(SubSeq(s, 2, Len(s)))

Items(v) == IF IsStr(v) THEN Chars(v.s) ELSE v.l

\* len(v) is defined
Sized(v) == v.t \in {"list", "str", "dict"}

NoCall == [pc |-> "idle", filter_dict |-> Candidate(PyNone, PyNone, PyNone),
           errors |-> <<>>]

\* the server process once its startup has run: main.py's lifespan created
\* the observability manager and wrote the tracing settings to os.environ,
\* routes/parse_prompt.py set agent_graph = None, and no configuration file
\* has been read.  environ_writes, catalog_loads and mapping_loads are
\* history: they count os.environ writes and reads of the two JSON files.
ProcessStart ==
  [agent_graph |-> "None", environ |-> "settings", environ_writes |-> 0,
   catalog_loads |-> 0, mapping_loads |-> 0]

Init ==
  /\ state \in [raw_filters : RawFilterInputs, errors : ErrorInputs]
  /\ today \in Days
  /\ pc = "call"
  /\ i = 0
  /\ validated_filters = <<>>
  /\ validation_errors = <<>>
  /\ origin = <<>>
  /\ result = NoResult
  /\ requests = <<>>
  /\ process = ProcessStart
  /\ call = NoCall

\* lines 25-34: read the state, log len(raw_filters), start the loop; the
\* logging call is outside the try block, so an unsized value raises
validation_node_enter ==
  /\ pc = "call"
  /\ pc' = IF Sized(raw_filters) THEN "loop" ELSE "raised"
  /\ UNCHANGED <<state, today, i, validated_filters, validation_errors,
                 origin, result, call, requests, process>>

\* the loop with filter_errors created once, outside the loop: the errors of
\* an earlier candidate are still in the list when a later one is judged
AppendOutcome_SharedErrors(out) ==
  /\ validated_filters' = IF validation_errors = <<>>
                            THEN validated_filters \o out.filters
                            ELSE validated_filters
  /\ validation_errors' = validation_errors \o out.errors
  /\ origin' = IF Len(out.filters) > 0 /\ validation_errors = <<>>
                 THEN Append(origin, i + 1) ELSE origin

\* lines 80-95: what one iteration appends to the two lists; origin keeps
\* the 1-based position of the candidate each validated filter came from
AppendOutcome(out) ==
  /\ validated_filters' = validated_filters \o out.filters
  /\ validation_errors' = validation_errors \o out.errors
  /\ origin' = IF Len(out.filters) > 0 THEN Append(origin, i + 1) ELSE origin

\* the loop with the try block around it instead of inside it: the first
\* exception records its error and ends the loop
validation_node_step_AbortsBatch ==
  /\ pc = "loop"
  /\ i < Len(Items(raw_filters))
  /\ AppendOutcome(ProcessCandidate(Items(raw_filters)[i + 1], i, today))
  /\ i' = IF Raised(NormalizeCandidate(Items(raw_filters)[i + 1], today))
            THEN Len(Items(raw_filters)) ELSE i + 1
  /\ UNCHANGED <<state, today, pc, result, call, requests, process>>

\* lines 36-95: one iteration of the loop, the try block and its handler
validation_node_step ==
  /\ pc = "loop"
  /\ i < Len(Items(raw_filters))
  /\ AppendOutcome(ProcessCandidate(Items(raw_filters)[i + 1], i, today))
  /\ i' = i + 1
  /\ UNCHANGED <<state, today, pc, result, call, requests, process>>

\* the return with line 98 written validation_errors + errors
validation_node_return_ErrorsSwapped ==
  /\ pc = "loop"
  /\ i = Len(Items(raw_filters))
  /\ pc' = "done"
  /\ result' = [returned |-> TRUE,
                validated_filters |-> validated_filters,
                errors |-> validation_errors \o errors.l]
  /\ UNCHANGED <<state, today, i, validated_filters, validation_errors,
                 origin, call, requests, process>>

\* lines 97-110: combine the errors and return the new state
validation_node_return ==
  /\ pc = "loop"
  /\ i = Len(Items(raw_filters))
  /\ pc' = "done"
  /\ result' = [returned |-> TRUE,
                validated_filters |-> validated_filters,
                errors |-> errors.l \o validation_errors]
  /\ UNCHANGED <<state, today, i, validated_filters, validation_errors,
                 origin, call, requests, process>>

Next ==
  \/ validation_node_enter
  \/ validation_node_step
  \/ validation_node_return

Spec == Init /\ [][Next]_vars

(***************************************************************************)
(* validate_filter called on its own, as the unit tests call it, on any    *)
(* filter dictionary.                                                      *)
(***************************************************************************)
FilterFields ==
  { PyStr("gender"), PyStr("store_rating"), PyStr("total_orders"),
    PyStr("joining_date"), PyStr("city"), PyStr("total_sales"),
    PyStr("latest_purchase"), PyStr("country"), PyStr("invalid_field"),
    PyStr("Gender"), PyStr(""), PyNone }

FilterOperators ==
  { PyStr("="), PyStr("!="), PyStr(">"), PyStr("between"), PyStr("Between"),
    PyStr("invalid_op"), PyNone }

FilterValues ==
  (RawValues \ {Absent})
    \cup { PyStr("Female"), PyList(<<PyFloat(30), PyFloat(50)>>),
           PyList(<<PyStr("2023-01-01"), PyStr("2023-12-31")>>) }

FilterInputs ==
  { Candidate(f, o, v) :
      f \in FilterFields, o \in FilterOperators, v \in FilterValues }

InitValidate ==
  /\ state = [raw_filters |-> Absent, errors |-> Absent]
  /\ today \in Days
  /\ pc = "idle"
  /\ i = 0
  /\ validated_filters = <<>>
  /\ validation_errors = <<>>
  /\ origin = <<>>
  /\ result = NoResult
  /\ requests = <<>>
  /\ process = ProcessStart
  /\ call \in [pc : {"call"}, filter_dict : FilterInputs, errors : {<<>>}]

\* errors = validate_filter(filter_dict, config)
validate_filter_call ==
  /\ call.pc = "call"
  /\ call' = [call EXCEPT
                !.pc = "returned",
                !.errors = validate_filter(call.filter_dict,
                                           load_supported_fields)]
  /\ UNCHANGED node_vars

NextValidate == validate_filter_call

SpecValidate == InitValidate /\ [][NextValidate]_vars

(***************************************************************************)
(* The canonicalizer called on its own, as the unit tests call it: an      *)
(* alias, a catalog field or other text, in any spelling and padding.      *)
(***************************************************************************)
UpperChar(c) ==
  IF \E k \in 1..26 : Lower[k] = c
    THEN Upper[CHOOSE k \in 1..26 : Lower[k] = c]
    ELSE c

\* the text in capitals ("SEX")
RECURSIVE PyUpper(_)
PyUpper(s) ==
  IF Len(s) = 0 THEN ""
  ELSE UpperChar(CharAt(s, 1)) \o PyUpper(SubSeq(s, 2, Len(s)))

\* the text with a capital first letter ("Sex")
Capitalize(s) ==
  IF Len(s) = 0 THEN "" ELSE UpperChar(CharAt(s, 1)) \o SubSeq(s, 2, Len(s))

\* the letter cases a name is written in
Cased(s) == { s, PyUpper(s), Capitalize(s) }

\* the spellings of a field name: any of the cases, with underscores or spaces
Spelled(s) == Cased(s) \cup Cased(PyReplace(s, "_", " "))

Pads == { "", " ", "  ", "\t", " \n" }

Padded(S) == { l \o s \o r : l \in Pads, s \in S, r \in Pads }

Keys(d) == { d[j][1] : j \in 1..Len(d) }

Elements(l) == { l[j] : j \in 1..Len(l) }

FieldNameInputs ==
  Padded(UNION { Spelled(a) : a \in Keys(field_aliases) }
           \cup UNION { Spelled(c) :
                          c \in Elements(Concat(load_supported_fields.fields)) }
           \cup { "", "email_open_rate", "Email Open Rate", "_sex", "sex_",
                  "s ex", "a  b", "sex\tgender" })

OperatorInputs ==
  Padded(UNION { Cased(a) : a \in Keys(operator_aliases) }
           \cup UNION { Cased(c) :
                          c \in Elements(load_supported_fields.operators) }
           \cup { "", "LIKE", "Like", "invalid_op", "not  equals", "is_not",
                  "==", "Not In", "greater" })

CanonCalls ==
  { [pc |-> "call", fn |-> "normalize_field_name", arg |-> PyStr(s),
     ret |-> Return(PyNone)] : s \in FieldNameInputs }
    \cup { [pc |-> "call", fn |-> "normalize_operator", arg |-> PyStr(s),
            ret |-> Return(PyNone)] : s \in OperatorInputs }

InitCanon ==
  /\ state = [raw_filters |-> Absent, errors |-> Absent]
  /\ today \in Days
  /\ pc = "idle"
  /\ i = 0
  /\ validated_filters = <<>>
  /\ validation_errors = <<>>
  /\ origin = <<>>
  /\ result = NoResult
  /\ requests = <<>>
  /\ process = ProcessStart
  /\ call \in CanonCalls

\* ret = normalize_field_name(arg)
normalize_field_name_call ==
  /\ call.pc = "call"
  /\ call.fn = "normalize_field_name"
  /\ call' = [call EXCEPT !.pc = "returned",
                          !.ret = normalize_field_name(call.arg)]
  /\ UNCHANGED node_vars

\* ret = normalize_operator(arg)
normalize_operator_call ==
  /\ call.pc = "call"
  /\ call.fn = "normalize_operator"
  /\ call' = [call EXCEPT !.pc = "returned",
                          !.ret = normalize_operator(call.arg)]
  /\ UNCHANGED node_vars

NextCanon ==
  \/ normalize_field_name_call
  \/ normalize_operator_call

SpecCanon == InitCanon /\ [][NextCanon]_vars

(***************************************************************************)
(* The value normalizer and the date resolver called on their own.  A text *)
(* handed to the date parser is a relative phrase, an ISO date, a bare day *)
(* number, or text without any digit: the shapes dateutil_parse models.    *)
(***************************************************************************)
NormFields ==
  { "gender", "country", "city", "total_orders", "total_sales",
    "joining_date", "email_open_rate" }

NormTypes == { "string", "integer", "float", "boolean", "date" }

\* texts of the mapping tables, as written by a user
MappedTexts ==
  { "male", "m", " Female ", "F", "MALE\t", ArMale, ArFemale, " " \o ArMale,
    "other", "Males", "saudi", "Saudi", "from SAUDI arabia", "sau", "uae",
    "Egypt", ArRiyadh, ArJeddah, " " \o ArDubai, "x" \o ArDubai \o "y",
    SubSeq(ArRiyadh, 1, 3), "Yes", "no", "" }

NumericTexts ==
  { "10", " 10 ", "10.5", "-10.5", "100.5", "0", "+7", "abc", "10%",
    "inf", "-inf", "Infinity", "nan", "NaN" }

DateTexts ==
  { "2023-01-15", " 2023-01-15 ", "2023-02-30", "2024-02-29", "15", "31",
    "hello", " hello\t", "", "next week", "2023-January-32",
    "last 30 days", "LAST 7 DAYS", " Last 1 day ", "last30days",
    "last week", "in the last 365 days", "last 1000000 days",
    "30 days since last visit", "blast 5 days", "12 days last 30 days",
    "last 2 daytime", "last 0 days" }

NonTexts ==
  { PyNone, PyInt(5), PyInt(-3), PyInt(100), PyFloat(105), PyFloat(-105),
    PyFloat(45), FloatInf, FloatNan, PyBool(TRUE), PyBool(FALSE), PyDict,
    PyList(<<>>), PyList(<<PyInt(3), PyInt(5)>>) }

Texts(S) == { PyStr(x) : x \in S }

NormalizeCalls ==
  { [pc |-> "call", fn |-> "normalize_value", field |-> f, value |-> v,
     field_type |-> t, rule |-> "", ret |-> Return(PyNone)] :
      f \in NormFields, t \in NormTypes \ {"date"},
      v \in Texts(MappedTexts \cup NumericTexts) \cup NonTexts }
    \cup
  { [pc |-> "call", fn |-> "normalize_value", field |-> f, value |-> v,
     field_type |-> "date", rule |-> "", ret |-> Return(PyNone)] :
      f \in NormFields, v \in Texts(DateTexts) \cup NonTexts }

ParseDateCalls ==
  { [pc |-> "call", fn |-> "parse_date", field |-> "", value |-> v,
     field_type |-> "date", rule |-> "", ret |-> Return(PyNone)] :
      v \in Texts(DateTexts) }

InitNormalize ==
  /\ state = [raw_filters |-> Absent, errors |-> Absent]
  /\ today \in Days
  /\ pc = "idle"
  /\ i = 0
  /\ validated_filters = <<>>
  /\ validation_errors = <<>>
  /\ origin = <<>>
  /\ result = NoResult
  /\ requests = <<>>
  /\ process = ProcessStart
  /\ call \in NormalizeCalls \cup ParseDateCalls

\* lines 175-177: the index where the relative rule finds its count (0 when
\* the rule does not apply)
days_match(date_str) ==
  IF PyIn("last", PyLower(PyStrip(date_str)))
    THEN DaysSearch(PyStrip(date_str))
    ELSE 0

\* the return statement of parse_date that is reached: line 181 (relative),
\* line 191 (fuzzy) or line 194 (unparsed)
parse_date_rule(date_str, now) ==
  IF days_match(date_str) > 0 THEN "relative"
  ELSE IF Raised(dateutil_parse(
                   ReplaceMonths(PyStrip(date_str),
                                 load_value_mappings.month_names), now))
    THEN "unparsed"
  ELSE "fuzzy"

\* ret = normalize_value(field, value, field_type)
normalize_value_call ==
  /\ call.pc = "call"
  /\ call.fn = "normalize_value"
  /\ call' = [call EXCEPT
                !.pc = "returned",
                !.ret = normalize_value(call.field, call.value,
                                        call.field_type, today)]
  /\ UNCHANGED node_vars

\* ret = parse_date(value); rule is history: the return statement reached
parse_date_call ==
  /\ call.pc = "call"
  /\ call.fn = "parse_date"
  /\ call' = [call EXCEPT
                !.pc = "returned",
                !.rule = parse_date_rule(call.value.s, today),
                !.ret = parse_date(call.value.s, today)]
  /\ UNCHANGED node_vars

NextNormalize ==
  \/ normalize_value_call
  \/ parse_date_call

SpecNormalize == InitNormalize /\ [][NextNormalize]_vars

(***************************************************************************)
(* The service: the parse_prompt route and the agent graph it invokes, for *)
(* several requests in flight.  A request owns its agent state; the server *)
(* process owns agent_graph and os.environ.                                *)
(***************************************************************************)
NumRequests == 2

\* request.prompt once PromptRequest validated it: stripped, 3 to 1000
\* characters; the second prompt is Arabic
Prompts == { "women", ArFemale }

\* any('\u0600' <= char <= '\u06FF' for char in prompt), over the symbols
\* that stand for Arabic letters
has_arabic(prompt) ==
  \E k \in 1..Len(prompt) : PyIn(CharAt(prompt, k), "@#$^&*~+?;|%{}")

\* initial_state = {"prompt": request.prompt}; the other keys are absent
initial_state(prompt) ==
  [prompt |-> prompt, language |-> "", errors |-> Absent,
   raw_filters |-> Absent, validated_filters |-> Absent,
   output |-> [filters |-> Absent, errors |-> Absent]]

\* input_node: strip the prompt, detect the language, reset the errors
input_node(st) ==
  [st EXCEPT !.prompt = PyStrip(st.prompt),
             !.language = IF has_arabic(PyStrip(st.prompt)) THEN "ar"
                          ELSE "en",
             !.errors = PyList(<<>>)]

\* what the language-model chain of parsing_node does: ChatOpenAI(...)
\* raises, chain.invoke raises (the call failed, or the answer is no JSON),
\* or the chain returns the JSON value result
LLMRaises(kind, msg) == [kind |-> kind, msg |-> msg, result |-> PyNone]
LLMReturns(answer) == [kind |-> "returns", msg |-> "", result |-> answer]
\* the outcomes of the chain; {"filters": f} is [t |-> "dict", filters |-> f],
\* with f Absent when the object has no such key
LLMOutcomes ==
  { LLMRaises("init_raises", "The api_key client option must be set"),
    LLMRaises("invoke_raises", "Connection error."),
    LLMReturns([t |-> "dict", filters |-> Absent]),
    LLMReturns([t |-> "dict", filters |-> PyNone]),
    LLMReturns([t |-> "dict", filters |-> PyList(<<>>)]) }
    \cup
    { LLMReturns([t |-> "dict", filters |-> PyList(b)]) : b \in
      { <<Candidate(PyStr("sex"), PyStr("is"), PyStr("female"))>>,
        <<Candidate(PyStr("email_open_rate"), PyStr("="), PyStr("10%"))>>,
        <<Candidate(PyStr("sex"), PyStr("is"), PyStr("female")),
          Candidate(PyStr("joining_date"), PyStr(">"),
                    PyStr("last 30 days")),
          Candidate(PyStr("total_orders"), PyStr(">"), PyStr("inf"))>>,
        <<Candidate(PyStr("store_rating"), PyStr("between"),
                    PyList(<<PyNone, PyInt(5)>>)),
          Candidate(PyStr("gender"), PyStr("="), PyDict)>> } }

\* lines 113-119: the handler of parsing_node
ParsingFailed(st, msg) ==
  [st EXCEPT !.raw_filters = PyList(<<>>),
             !.errors = PyList(Get(st.errors, PyList(<<>>)).l
                                 \o <<"Parsing error: " \o msg>>)]

NoLen(v) == "object of type '" \o v.t \o "' has no len()"

\* the handler of parsing_node re-raising what it caught
parsing_node_Reraises(st, llm) ==
  IF llm.kind \in {"init_raises", "invoke_raises"}
    THEN Raise("Exception", llm.msg)
  ELSE IF llm.result.t # "dict"
    THEN Raise("AttributeError", NoAttribute(llm.result, "get"))
  ELSE IF ~Sized(Get(llm.result.filters, PyList(<<>>)))
    THEN Raise("TypeError", NoLen(Get(llm.result.filters, PyList(<<>>))))
  ELSE Return([st EXCEPT
                 !.raw_filters = Get(llm.result.filters, PyList(<<>>))])

\* parsing_node: result.get("filters", []) and len(raw_filters) are inside
\* the try block, so a result that is no object, or filters without a
\* length, ends in the handler as a failed call does
parsing_node(st, llm) ==
  IF llm.kind \in {"init_raises", "invoke_raises"}
    THEN Return(ParsingFailed(st, llm.msg))
  ELSE IF llm.result.t # "dict"
    THEN Return(ParsingFailed(st, NoAttribute(llm.result, "get")))
  ELSE IF ~Sized(Get(llm.result.filters, PyList(<<>>)))
    THEN Return(ParsingFailed(st,
                  NoLen(Get(llm.result.filters, PyList(<<>>)))))
  ELSE Return([st EXCEPT
                 !.raw_filters = Get(llm.result.filters, PyList(<<>>))])

Join(a, b) ==
  [filters |-> a.filters \o b.filters, errors |-> a.errors \o b.errors]

\* lines 36-95 for the candidates from index k on
RECURSIVE validation_loop(_, _, _)
validation_loop(items, k, now) ==
  IF k >= Len(items) THEN [filters |-> <<>>, errors |-> <<>>]
  ELSE Join(ProcessCandidate(items[k + 1], k, now),
            validation_loop(items, k + 1, now))

\* lines 97-110: the state validation_node returns
Validated(st, looped) ==
  [st EXCEPT !.validated_filters = PyList(looped.filters),
             !.errors = PyList(Get(st.errors, PyList(<<>>)).l
                                 \o looped.errors)]

\* validation_node as a function of the agent state
validation_node(st, now) ==
  IF ~Sized(Get(st.raw_filters, PyList(<<>>)))
    THEN Raise("TypeError", NoLen(Get(st.raw_filters, PyList(<<>>))))
  ELSE Return(Validated(st,
         validation_loop(Items(Get(st.raw_filters, PyList(<<>>))), 0, now)))

\* load_value_mappings() calls while one value is normalized: one by
\* normalize_value (line 119) and one more by parse_date (line 173) when
\* normalize_value reaches line 145
value_mapping_loads(field, value, field_type) ==
  IF ~IsStr(value) \/ field_type # "date" THEN 1
  ELSE IF field = "gender"
            /\ HasKey(load_value_mappings.gender_mappings,
                      PyLower(PyStrip(value.s)))
    THEN 1
  ELSE IF field = "country"
            /\ \E j \in 1..Len(load_value_mappings.country_mappings) :
                 PyIn(PyLower(load_value_mappings.country_mappings[j][1]),
                      PyLower(PyStrip(value.s)))
    THEN 1
  ELSE IF field = "city"
            /\ \E j \in 1..Len(load_value_mappings.city_mappings) :
                 \/ PyIn(PyLower(load_value_mappings.city_mappings[j][1]),
                         PyLower(PyStrip(value.s)))
                 \/ PyIn(PyLower(PyStrip(value.s)),
                         PyLower(load_value_mappings.city_mappings[j][1]))
    THEN 1
  ELSE 2

\* the calls made by the comprehension of lines 53-55, which stops at the
\* first element that raises
RECURSIVE each_mapping_loads(_, _, _, _)
each_mapping_loads(field, values, field_type, now) ==
  IF Len(values) = 0 THEN 0
  ELSE value_mapping_loads(field, values[1], field_type)
       + (IF Raised(normalize_value(field, values[1], field_type, now))
            THEN 0
            ELSE each_mapping_loads(field, Tail(values), field_type, now))

\* the calls made for a candidate whose field name normalized to field
rest_mapping_loads(field, value, field_type, now) ==
  IF IsList(value) THEN each_mapping_loads(field, value.l, field_type, now)
  ELSE value_mapping_loads(field, value, field_type)

\* lines 38-57: the calls made for one candidate; none when an earlier
\* line of the try block raised
candidate_mapping_loads(filter_dict, now) ==
  IF filter_dict.t # "dict" THEN 0
  ELSE IF Raised(normalize_field_name(Get(filter_dict.field, PyStr(""))))
    THEN 0
  ELSE IF Raised(normalize_operator(Get(filter_dict.operator, PyStr(""))))
    THEN 0
  ELSE rest_mapping_loads(
         normalize_field_name(Get(filter_dict.field, PyStr(""))).val.s,
         Get(filter_dict.value, PyNone),
         Lookup(load_supported_fields.field_types,
                normalize_field_name(Get(filter_dict.field, PyStr(""))).val.s,
                "string"),
         now)

RECURSIVE loop_mapping_loads(_, _)
loop_mapping_loads(items, now) ==
  IF Len(items) = 0 THEN 0
  ELSE candidate_mapping_loads(items[1], now)
       + loop_mapping_loads(Tail(items), now)

\* the calls made by one invocation of validation_node
validation_node_mapping_loads(st, now) ==
  IF ~Sized(Get(st.raw_filters, PyList(<<>>))) THEN 0
  ELSE loop_mapping_loads(Items(Get(st.raw_filters, PyList(<<>>))), now)

\* output_node: the output has the key errors only when there are errors
output_node(st) ==
  [st EXCEPT
     !.output =
       [filters |-> Get(st.validated_filters, PyList(<<>>)),
        errors |-> IF Len(Get(st.errors, PyList(<<>>)).l) > 0
                     THEN Get(st.errors, PyList(<<>>)) ELSE Absent]]

\* Filter(**f) passes validation
SchemaAccepts(f) ==
  /\ IsStr(f.field)
  /\ IsStr(f.operator)
  /\ InList(f.operator.s, <<"=", "!=", "<", ">", "<=", ">=", "between">>)
  /\ \/ f.value.t \in {"str", "int", "float", "bool"}
     \/ /\ IsList(f.value)
        /\ \A k \in 1..Len(f.value.l) :
             f.value.l[k].t \in {"str", "int", "float", "bool"}

Response(status, filters, error, details) ==
  [status |-> status, filters |-> filters, error |-> error,
   details |-> details]

\* lines 118-126: any other exception becomes a 500
InternalError(msg) ==
  Response(500, <<>>, "Internal server error during prompt parsing", <<msg>>)

\* lines 86-102, for the filters and errors of the output
Answered(filters, errs) ==
  IF Len(errs) > 0 /\ Len(filters) = 0
    THEN Response(400, <<>>, "Failed to parse prompt into valid filters",
                  errs)
  ELSE IF \A k \in 1..Len(filters) : SchemaAccepts(filters[k])
    THEN Response(200, filters, "", <<>>)
  ELSE InternalError("validation error for FilterResponse")

\* lines 79-126: the response to a request whose graph returned state st
respond(st) ==
  Answered(Get(st.output.filters, PyList(<<>>)).l,
           Get(st.output.errors, PyList(<<>>)).l)

\* core/config.py: Settings.langchain_tracing_v2
langchain_tracing_v2 == TRUE

\* graph_builder.py lines 36-39: the edges; the entry point is input
edges ==
  << <<"input", "parsing">>, <<"parsing", "validation">>,
     <<"validation", "output">>, <<"output", "END">> >>

\* a graph whose parsing node routes to END when it recorded an error
next_node_EndsOnParsingError(node, st) ==
  IF node = "parsing" /\ Len(Get(st.errors, PyList(<<>>)).l) > 0 THEN "END"
  ELSE Lookup(edges, node, "END")

\* the node that runs after node returned state st
next_node(node, st) == Lookup(edges, node, "END")

\* a request: its position, request.prompt, the agent state of its graph
\* run, and the response sent.  llm, trace and exc are history: the outcome
\* of the language-model chain, the nodes that ran, and str(e) of an
\* exception that left graph.invoke
NewRequest(prompt) ==
  [pc |-> "received", prompt |-> prompt, st |-> initial_state(""),
   llm |-> LLMRaises("none", ""), trace |-> <<>>, exc |-> "",
   response |-> Response(0, <<>>, "", <<>>)]

\* the requests of one run are served on 2026-11-04
InitService ==
  /\ state = [raw_filters |-> Absent, errors |-> Absent]
  /\ today = 20761
  /\ pc = "idle"
  /\ i = 0
  /\ validated_filters = <<>>
  /\ validation_errors = <<>>
  /\ origin = <<>>
  /\ result = NoResult
  /\ call = NoCall
  /\ requests \in [1..NumRequests -> { NewRequest(p) : p \in Prompts }]
  /\ process = ProcessStart

unit_vars == <<state, today, pc, i, validated_filters, validation_errors,
               origin, result, call>>

\* get_agent_graph(), lines 17-22
get_agent_graph(p) ==
  IF p.agent_graph = "None" THEN [p EXCEPT !.agent_graph = "compiled"] ELSE p

\* ObservabilityManager.setup_environment, called by trace_run
setup_environment(p) ==
  IF langchain_tracing_v2
    THEN [p EXCEPT !.environ = "settings", !.environ_writes = @ + 1]
    ELSE p

\* routes/parse_prompt.py lines 57-74: the handler up to graph.invoke
parse_prompt_begin(r) ==
  /\ requests[r].pc = "received"
  /\ process' = setup_environment(get_agent_graph(process))
  /\ requests' = [requests EXCEPT
                    ![r].pc = "input",
                    ![r].st = initial_state(requests[r].prompt)]
  /\ UNCHANGED unit_vars

\* graph.invoke: request req after node returned or raised out
Stepped(req, node, out) ==
  IF Raised(out)
    THEN [req EXCEPT !.pc = "raised", !.exc = out.msg,
                     !.trace = Append(@, node)]
    ELSE [req EXCEPT !.pc = next_node(node, out.val), !.st = out.val,
                     !.trace = Append(@, node)]

invoke_input(r) ==
  /\ requests[r].pc = "input"
  /\ requests' = [requests EXCEPT
                    ![r] = Stepped(@, "input", Return(input_node(@.st)))]
  /\ UNCHANGED <<unit_vars, process>>

\* the parsing node runs the language-model chain, whose outcome is llm
invoke_parsing(r) ==
  /\ requests[r].pc = "parsing"
  /\ \E llm \in LLMOutcomes :
       /\ requests' =
            [requests EXCEPT
               ![r] = [Stepped(@, "parsing", parsing_node(@.st, llm))
                         EXCEPT !.llm = llm]]
       /\ process' =
            [process EXCEPT
               !.catalog_loads =
                  @ + (IF llm.kind = "init_raises" THEN 0 ELSE 1)]
  /\ UNCHANGED unit_vars

\* a validation node whose error list is a module-level list that the first
\* request's state aliases, so that every request reads that list
invoke_validation_SharedErrors(r) ==
  /\ requests[r].pc = "validation"
  /\ requests' =
       [requests EXCEPT
          ![r] = Stepped(@, "validation",
                         validation_node(
                           [@.st EXCEPT !.errors = requests[1].st.errors],
                           today))]
  /\ process' =
       [process EXCEPT
          !.catalog_loads =
             @ + (IF Sized(Get(requests[r].st.raw_filters, PyList(<<>>)))
                    THEN 1 ELSE 0),
          !.mapping_loads =
             @ + validation_node_mapping_loads(requests[r].st, today)]
  /\ UNCHANGED unit_vars

invoke_validation(r) ==
  /\ requests[r].pc = "validation"
  /\ requests' =
       [requests EXCEPT
          ![r] = Stepped(@, "validation", validation_node(@.st, today))]
  /\ process' =
       [process EXCEPT
          !.catalog_loads =
             @ + (IF Sized(Get(requests[r].st.raw_filters, PyList(<<>>)))
                    THEN 1 ELSE 0),
          !.mapping_loads =
             @ + validation_node_mapping_loads(requests[r].st, today)]
  /\ UNCHANGED unit_vars

invoke_output(r) ==
  /\ requests[r].pc = "output"
  /\ requests' = [requests EXCEPT
                    ![r] = Stepped(@, "output", Return(output_node(@.st)))]
  /\ UNCHANGED <<unit_vars, process>>

\* routes/parse_prompt.py lines 79-126: the response, once graph.invoke
\* returned or raised
parse_prompt_respond(r) ==
  /\ requests[r].pc \in {"END", "raised"}
  /\ requests' =
       [requests EXCEPT
          ![r].pc = "done",
          ![r].response = IF requests[r].pc = "raised"
                            THEN InternalError(requests[r].exc)
                            ELSE respond(requests[r].st)]
  /\ UNCHANGED <<unit_vars, process>>

NextService ==
  \E r \in 1..NumRequests :
    \/ parse_prompt_begin(r)
    \/ invoke_input(r)
    \/ invoke_parsing(r)
    \/ invoke_validation(r)
    \/ invoke_output(r)
    \/ parse_prompt_respond(r)

SpecService == InitService /\ [][NextService]_vars

TypeOK ==
  /\ pc \in {"idle", "call", "loop", "done", "raised"}
  /\ i \in 0..(MaxLen + 1)
  /\ result.returned = (pc = "done")
  /\ call.pc \in {"idle", "call", "returned"}

(***************************************************************************)
(* Vocabulary of the properties.                                           *)
(***************************************************************************)
Done == pc = "done"

\* the number of candidates and the candidate at position p (from 1)
NumCandidates == Len(Items(raw_filters))
CandidateAt(p) == Items(raw_filters)[p]

\* the error records this invocation added behind the ones it was given
NodeErrors == SubSeq(result.errors, Len(errors.l) + 1, Len(result.errors))

\* the records of errs that carry position p, in their order
RecordsOf(p, errs) ==
  SelectSeq(errs, LAMBDA e : StartsWith(e, "Filter " \o ToString(p) \o ": "))

\* the places in validated_filters that candidate p filled
FiltersOf(p) == {k \in 1..Len(origin) : origin[k] = p}

Mentions(e, phrase) == PyIn(phrase, e)

AllFields == Concat(load_supported_fields.fields)
DeclaredType(name) == Lookup(load_supported_fields.field_types, name, "string")
IsPair(v) == IsList(v) /\ Len(v.l) = 2

\* a candidate object whose field and operator entries are text (or left out)
TextualCandidate(c) ==
  /\ c.t = "dict"
  /\ IsStr(Get(c.field, PyStr("")))
  /\ IsStr(Get(c.operator, PyStr("")))

\* the canonical field name of a candidate object with a textual field
CanonicalField(c) == normalize_field_name(Get(c.field, PyStr(""))).val.s

(***************************************************************************)
(* C1.  Every filter in validated_filters passes every Validator rule:     *)
(* validate_filter returns no error for it, that is, its field is in the   *)
(* catalog, its operator is in the operator set and legal for the field's  *)
(* type, its value is not missing, and the value is a two-element list     *)
(* when the operator is between.  This holds while the loop runs and in    *)
(* the returned state.                                                     *)
(***************************************************************************)
PassesEveryRule(f) ==
  /\ IsStr(f.field) /\ InList(f.field.s, AllFields)
  /\ IsStr(f.operator) /\ InList(f.operator.s, load_supported_fields.operators)
  /\ InList(f.operator.s,
            Lookup(load_supported_fields.valid_operators_per_type,
                   DeclaredType(f.field.s), <<>>))
  /\ f.value.t # "NoneType"
  /\ IsStr(f.value) => PyStrip(f.value.s) # ""
  /\ f.operator.s = "between" => IsPair(f.value)

AllPass(filters) ==
  \A k \in 1..Len(filters) :
    /\ validate_filter(filters[k], load_supported_fields) = <<>>
    /\ PassesEveryRule(filters[k])

C1_ValidatedFiltersPassEveryRule ==
  /\ AllPass(validated_filters)
  /\ AllPass(result.validated_filters)

C1_Witness ==
  /\ Done
  /\ Len(result.validated_filters) >= 1
  /\ Len(NodeErrors) >= 1

(***************************************************************************)
(* C2.  The returned state is a complete partition of the candidates:      *)
(* each position either filled exactly one place of validated_filters and  *)
(* has no error record, or filled none and has at least one error record   *)
(* carrying its position; every record added carries the position of a     *)
(* candidate; and the number of filters plus the number of candidates with *)
(* records is the number of candidates.                                    *)
(***************************************************************************)
C2_CompletePartition ==
  Done =>
    /\ Len(result.validated_filters) = Len(origin)
    /\ \A p \in 1..NumCandidates :
         LET nf == Cardinality(FiltersOf(p))
             ne == Len(RecordsOf(p, NodeErrors))
         IN (nf = 1 /\ ne = 0) \/ (nf = 0 /\ ne >= 1)
    /\ \A k \in 1..Len(NodeErrors) :
         \E p \in 1..NumCandidates : Len(RecordsOf(p, <<NodeErrors[k]>>)) = 1
    /\ Len(result.validated_filters)
         + Cardinality({p \in 1..NumCandidates :
                          Len(RecordsOf(p, NodeErrors)) >= 1})
       = NumCandidates

C2_Witness ==
  /\ Done
  /\ NumCandidates = 2
  /\ Cardinality(FiltersOf(2)) = 1
  /\ Len(RecordsOf(1, NodeErrors)) = 3

(***************************************************************************)
(* C3.  validation_node never raises, whatever raw_filters holds (a        *)
(* missing key, None, a value that is no list, candidates that are no      *)
(* dictionaries or whose field or operator is None).                       *)
(***************************************************************************)
C3_NeverRaises == pc # "raised"

(***************************************************************************)
(* C4.  A candidate that raises during canonicalization, normalization or  *)
(* validation leaves exactly one record, "Filter <i>: Validation exception *)
(* - <message>", and no filter, and the batch goes on: the loop consumes   *)
(* every candidate and each later candidate has its own filter or records. *)
(***************************************************************************)
C4_ExceptionIsOneRecord ==
  Done =>
    /\ i = NumCandidates
    /\ \A p \in 1..NumCandidates :
         LET e == NormalizeCandidate(CandidateAt(p), today)
         IN Raised(e) =>
              /\ RecordsOf(p, NodeErrors)
                   = << "Filter " \o ToString(p)
                          \o ": Validation exception - " \o e.msg >>
              /\ FiltersOf(p) = {}
              /\ \A q \in (p + 1)..NumCandidates :
                   Cardinality(FiltersOf(q)) + Len(RecordsOf(q, NodeErrors))
                     >= 1

C4_Witness ==
  /\ Done
  /\ NumCandidates = 2
  /\ Raised(NormalizeCandidate(CandidateAt(1), today))
  /\ Len(RecordsOf(1, NodeErrors)) = 1
  /\ Cardinality(FiltersOf(2)) = 1

(***************************************************************************)
(* C5.  Output ordering.  validated_filters holds the filters of the       *)
(* candidates that passed, in input order, each being the normalized form  *)
(* of its candidate; the returned errors start with the errors the state   *)
(* already held, then carry the records by increasing candidate position,  *)
(* and the records of one candidate follow the order of the validator      *)
(* rules.                                                                  *)
(***************************************************************************)
\* the validator rule a record reports (0 for an exception record)
RuleOf(e) ==
  CASE Mentions(e, ": Unsupported field: ") -> 1
    [] Mentions(e, ": Unsupported operator: ") -> 2
    [] Mentions(e, "' is not valid for field '") -> 3
    [] Mentions(e, ": Missing value for field: ") -> 4
    [] Mentions(e, "requires a list of two values for field: ") -> 5
    [] OTHER -> 0

PositionOf(e) ==
  CHOOSE p \in 1..NumCandidates : Len(RecordsOf(p, <<e>>)) = 1

C5_OutputOrdering ==
  Done =>
    /\ \A k \in 1..Len(origin) : \A h \in 1..Len(origin) :
         k < h => origin[k] < origin[h]
    /\ \A k \in 1..Len(origin) :
         result.validated_filters[k]
           = NormalizeCandidate(CandidateAt(origin[k]), today).val
    /\ SubSeq(result.errors, 1, Len(errors.l)) = errors.l
    /\ \A k \in 1..Len(NodeErrors) : \A h \in 1..Len(NodeErrors) :
         k < h =>
           \/ PositionOf(NodeErrors[k]) < PositionOf(NodeErrors[h])
           \/ /\ PositionOf(NodeErrors[k]) = PositionOf(NodeErrors[h])
              /\ RuleOf(NodeErrors[k]) < RuleOf(NodeErrors[h])

C5_Witness ==
  /\ Done
  /\ Len(errors.l) = 1
  /\ NumCandidates = 2
  /\ Len(RecordsOf(1, NodeErrors)) = 3
  /\ Len(RecordsOf(2, NodeErrors)) = 1

(***************************************************************************)
(* C6.  A candidate whose raw value is absent, None, or empty or           *)
(* whitespace-only text is dropped for every field and operator: it fills  *)
(* no place of validated_filters and leaves a missing-value record.        *)
(***************************************************************************)
RawValueMissing(v) ==
  v.t \in {"absent", "NoneType"} \/ (IsStr(v) /\ PyStrip(v.s) = "")

C6_MissingValueAlwaysDropped ==
  Done =>
    \A p \in 1..NumCandidates :
      (TextualCandidate(CandidateAt(p))
         /\ RawValueMissing(CandidateAt(p).value)) =>
        /\ FiltersOf(p) = {}
        /\ \E k \in 1..Len(NodeErrors) :
             /\ Len(RecordsOf(p, <<NodeErrors[k]>>)) = 1
             /\ Mentions(NodeErrors[k], "Missing value")

(***************************************************************************)
(* C7.  Every filter in validated_filters has a value conformant to the    *)
(* declared type of its field (integer, float, boolean, YYYY-MM-DD text    *)
(* for a date, text for a string), or a pair of two such values when the   *)
(* operator is between.                                                    *)
(***************************************************************************)
TypeConformant(v, field_type) ==
  CASE field_type = "integer" -> v.t = "int"
    [] field_type = "float" -> v.t = "float"
    [] field_type = "boolean" -> v.t = "bool"
    [] field_type = "date" -> IsStr(v) /\ IsIsoShape(v.s)
    [] OTHER -> IsStr(v)

C7_ValuesTypeConformant ==
  \A k \in 1..Len(validated_filters) :
    LET f == validated_filters[k]
        field_type == DeclaredType(f.field.s)
    IN IF f.operator.s = "between"
         THEN /\ IsPair(f.value)
              /\ TypeConformant(f.value.l[1], field_type)
              /\ TypeConformant(f.value.l[2], field_type)
         ELSE TypeConformant(f.value, field_type)

(***************************************************************************)
(* C8.  Every filter in validated_filters has a scalar value or a          *)
(* two-element pair: a list of another length, or a list under an operator *)
(* other than between, never gets there.                                   *)
(***************************************************************************)
C8_ScalarOrPair ==
  \A k \in 1..Len(validated_filters) :
    LET f == validated_filters[k]
    IN \/ f.value.t \in {"str", "int", "float", "bool"}
       \/ (IsPair(f.value) /\ f.operator.s = "between")

(***************************************************************************)
(* C9.  A candidate whose canonical field is not in the catalog is         *)
(* rejected with exactly one record, "Unsupported field: <field>", and     *)
(* fills no place of validated_filters.                                    *)
(*   As claimed: regardless of its operator and value.                     *)
(*   As amended: regardless of its value and of its operator as long as    *)
(*   the operator is text (or left out); an operator that is not text      *)
(*   makes the candidate an exception record instead.                      *)
(***************************************************************************)
FieldUnsupported(c) ==
  /\ c.t = "dict"
  /\ IsStr(Get(c.field, PyStr("")))
  /\ ~InList(CanonicalField(c), AllFields)

OneUnsupportedFieldRecord(p) ==
  /\ RecordsOf(p, NodeErrors)
       = << "Filter " \o ToString(p) \o ": Unsupported field: "
              \o CanonicalField(CandidateAt(p)) >>
  /\ FiltersOf(p) = {}

Structural(errs) ==
  \E k \in 1..Len(errs) : Mentions(errs[k], "requires a list of two values")

BetweenCall ==
  /\ call.pc = "returned"
  /\ call.filter_dict.operator = PyStr("between")

C10_BetweenAlwaysStructural ==
  BetweenCall =>
    /\ ~IsPair(call.filter_dict.value) => Structural(call.errors)
    /\ (IsPair(call.filter_dict.value)
          /\ InList(KeyOf(call.filter_dict.field), AllFields))
         => ~Structural(call.errors)

C10_BetweenStructuralInCatalog ==
  BetweenCall =>
    IF InList(KeyOf(call.filter_dict.field), AllFields)
      THEN Structural(call.errors) <=> ~IsPair(call.filter_dict.value)
      ELSE call.errors = <<UnsupportedField(call.filter_dict.field)>>

C10_Witness ==
  /\ call.pc = "returned"
  /\ call.filter_dict
       = Candidate(PyStr("store_rating"), PyStr("between"), PyInt(5))
  /\ call.errors
       = <<"Operator 'between' requires a list of two values for field: store_rating">>

(***************************************************************************)
(* C11.  normalize_field_name maps every alias, written in any letter      *)
(* case, with surrounding whitespace and with spaces in place of           *)
(* underscores, to its canonical field; it leaves every catalog field      *)
(* unchanged; and it is idempotent: normalizing its result again returns   *)
(* the same result.                                                        *)
(***************************************************************************)
Returned(fn) == call.pc = "returned" /\ call.fn = fn

\* the alias table as the documentation lists it
C11_Aliases ==
  << <<"sex", "gender">>, <<"join_date", "joining_date">>,
     <<"signup_date", "joining_date">>,
     <<"registration_date", "joining_date">>,
     <<"orders", "total_orders">>, <<"order_count", "total_orders">>,
     <<"num_orders", "total_orders">>, <<"sales", "total_sales">>,
     <<"revenue", "total_sales">>, <<"rating", "store_rating">>,
     <<"last_order", "latest_purchase">>,
     <<"last_purchase", "latest_purchase">> >>

C11_FieldNameCanonical ==
  Returned("normalize_field_name") =>
    /\ ~Raised(call.ret)
    /\ \A j \in 1..Len(C11_Aliases) :
         call.arg.s \in Padded(Spelled(C11_Aliases[j][1]))
           => call.ret.val = PyStr(C11_Aliases[j][2])
    /\ InList(call.arg.s, AllFields) => call.ret.val = call.arg
    /\ normalize_field_name(call.ret.val) = call.ret

C11_Witness ==
  /\ Returned("normalize_field_name")
  /\ call.arg = PyStr(" LAST PURCHASE\t")
  /\ call.ret.val = PyStr("latest_purchase")

(***************************************************************************)
(* C12.  normalize_operator maps every operator alias, in any letter case  *)
(* and with surrounding whitespace, to its canonical operator, and maps    *)
(* each of the seven canonical operators to itself.                        *)
(***************************************************************************)
\* the alias table as the claim lists it
C12_Aliases ==
  << <<"equals", "=">>, <<"equal", "=">>, <<"is", "=">>,
     <<"not equals", "!=">>, <<"not equal", "!=">>, <<"is not", "!=">>,
     <<"greater than", ">">>, <<"more than", ">">>, <<"gt", ">">>,
     <<"less than", "<">>, <<"lt", "<">>,
     <<"greater than or equal", ">=">>, <<"at least", ">=">>,
     <<"gte", ">=">>,
     <<"less than or equal", "<=">>, <<"at most", "<=">>, <<"lte", "<=">>,
     <<"in range", "between">>, <<"range", "between">> >>

C12_Canonical == <<"=", "!=", "<", ">", "<=", ">=", "between">>

C12_OperatorCanonical ==
  Returned("normalize_operator") =>
    /\ ~Raised(call.ret)
    /\ \A j \in 1..Len(C12_Aliases) :
         call.arg.s \in Padded(Cased(C12_Aliases[j][1]))
           => call.ret.val = PyStr(C12_Aliases[j][2])
    /\ InList(call.arg.s, C12_Canonical) => call.ret.val = call.arg

C12_Witness ==
  /\ Returned("normalize_operator")
  /\ call.arg = PyStr("  GREATER THAN OR EQUAL ")
  /\ call.ret.val = PyStr(">=")

(***************************************************************************)
(* C13.  normalize_operator on an operator that matches no alias.          *)
(*   As claimed: the result is character for character the argument, its   *)
(*   casing and spacing unchanged.                                         *)
(*   As amended: the result is the argument without its leading and        *)
(*   trailing whitespace, its casing and inner spacing unchanged.          *)
(***************************************************************************)
MatchesNoAlias(s) ==
  \A j \in 1..Len(C12_Aliases) : s \notin Padded(Cased(C12_Aliases[j][1]))

AllWhitespace(s) == \A k \in 1..Len(s) : CharAt(s, k) \in Whitespace

\* y is x without the whitespace around it
TrimOf(x, y) ==
  \E a \in 0..Len(x) : \E b \in 0..(Len(x) - a) :
    /\ y = SubSeq(x, a + 1, Len(x) - b)
    /\ AllWhitespace(SubSeq(x, 1, a))
    /\ AllWhitespace(SubSeq(x, Len(x) - b + 1, Len(x)))
    /\ Len(y) > 0 => /\ CharAt(y, 1) \notin Whitespace
                     /\ CharAt(y, Len(y)) \notin Whitespace

C14_NormalizeValueIdempotent ==
  Returned("normalize_value") =>
    /\ ~Raised(call.ret)
    /\ normalize_value(call.field, call.ret.val, call.field_type, today)
         = call.ret

(***************************************************************************)
(* C15.  Numeric coercion: under field type integer a number or numeric    *)
(* text that is not a boolean becomes the integer obtained by truncating   *)
(* its float value toward zero; under field type float it becomes that     *)
(* float value.                                                            *)
(***************************************************************************)
\* finite numbers and numeric texts, with the number they denote in tenths
C15_Numbers ==
  << <<PyStr("10"), 100>>, <<PyStr(" 10 "), 100>>, <<PyStr("10.5"), 105>>,
     <<PyStr("-10.5"), -105>>, <<PyStr("100.5"), 1005>>, <<PyStr("0"), 0>>,
     <<PyStr("+7"), 70>>, <<PyInt(5), 50>>, <<PyInt(-3), -30>>,
     <<PyInt(100), 1000>>, <<PyFloat(105), 105>>, <<PyFloat(-105), -105>>,
     <<PyFloat(45), 45>> >>

TowardZero(tenths) ==
  IF tenths >= 0 THEN tenths \div 10 ELSE -((-tenths) \div 10)

C15_NumericCoercion ==
  Returned("normalize_value") =>
    \A j \in 1..Len(C15_Numbers) :
      call.value = C15_Numbers[j][1] =>
        /\ call.field_type = "integer"
             => call.ret = Return(PyInt(TowardZero(C15_Numbers[j][2])))
        /\ call.field_type = "float"
             => call.ret = Return(PyFloat(C15_Numbers[j][2]))

C15_Witness ==
  /\ Returned("normalize_value")
  /\ call.field = "total_orders"
  /\ call.field_type = "integer"
  /\ call.value = PyStr("-10.5")
  /\ call.ret = Return(PyInt(-10))

(***************************************************************************)
(* C16.  Numeric coercion never fails: under field type integer or float a *)
(* value that cannot be converted (text that is no number, None, a list, a *)
(* mapping, text denoting an infinite or not-a-number value) is returned   *)
(* unchanged and no exception is raised.                                   *)
(***************************************************************************)
C16_Unconvertible ==
  { PyStr("abc"), PyStr("10%"), PyStr("inf"), PyStr("-inf"),
    PyStr("Infinity"), PyStr("nan"), PyStr("NaN"), PyNone, PyDict,
    PyList(<<>>), PyList(<<PyInt(3), PyInt(5)>>) }

C16_CoercionNeverFails ==
  (Returned("normalize_value") /\ call.field_type \in {"integer", "float"})
    => /\ ~Raised(call.ret)
       /\ call.value \in C16_Unconvertible => call.ret.val = call.value

(***************************************************************************)
(* C17.  For field gender a text whose trimmed, lowercased form is a key   *)
(* of gender_mappings normalizes to the mapped token whatever the field    *)
(* type; a gender text that is not a key is returned trimmed and otherwise *)
(* unchanged.                                                              *)
(*   As claimed: the second part too holds whatever the field type.        *)
(*   As amended: the second part holds when the field type is string, the  *)
(*   declared type of gender; under another field type the text goes on to *)
(*   the boolean, date and numeric rules of that type.                     *)
(***************************************************************************)
C17_Genders ==
  << <<"male", "Male">>, <<"m", "Male">>, <<ArMale, "Male">>,
     <<"female", "Female">>, <<"f", "Female">>, <<ArFemale, "Female">> >>

GenderCall ==
  /\ Returned("normalize_value")
  /\ call.field = "gender"
  /\ IsStr(call.value)

GenderKey == PyLower(PyStrip(call.value.s))

C17_GenderAnyType ==
  GenderCall =>
    IF HasKey(C17_Genders, GenderKey)
      THEN call.ret = Return(PyStr(Lookup(C17_Genders, GenderKey, "")))
      ELSE call.ret = Return(PyStr(PyStrip(call.value.s)))

C17_GenderStringType ==
  GenderCall =>
    IF HasKey(C17_Genders, GenderKey)
      THEN call.ret = Return(PyStr(Lookup(C17_Genders, GenderKey, "")))
      ELSE call.field_type = "string"
             => call.ret = Return(PyStr(PyStrip(call.value.s)))

C17_Witness ==
  /\ Returned("normalize_value")
  /\ call.field = "gender"
  /\ call.field_type = "integer"
  /\ call.value = PyStr(" Female ")
  /\ call.ret = Return(PyStr("Female"))

(***************************************************************************)
(* C18.  For field country and for field city alike, a text is replaced by *)
(* the mapped value of the first key, in table order, such that the key is *)
(* a case-insensitive substring of the text or the text is one of the key; *)
(* when no key matches in either direction the trimmed text is returned.   *)
(***************************************************************************)
EitherWay(key, text) ==
  PyIn(PyLower(key), PyLower(text)) \/ PyIn(PyLower(text), PyLower(key))

C18_SubstringEitherWay ==
  (Returned("normalize_value") /\ call.field \in {"country", "city"}
     /\ IsStr(call.value) /\ call.field_type = "string") =>
    LET table == IF call.field = "country"
                   THEN load_value_mappings.country_mappings
                   ELSE load_value_mappings.city_mappings
        hit == FirstHit({j \in 1..Len(table) :
                           EitherWay(table[j][1], PyStrip(call.value.s))})
    IN IF hit > 0 THEN call.ret = Return(PyStr(table[hit][2]))
       ELSE call.ret = Return(PyStr(PyStrip(call.value.s)))

(***************************************************************************)
(* C19.  parse_date on a text that holds "last" (any case) followed by a   *)
(* count N and the word day or days returns the date N days before today   *)
(* as YYYY-MM-DD, in preference to month-name substitution and fuzzy       *)
(* parsing; a text without that shape is never resolved by the relative    *)
(* rule.                                                                   *)
(***************************************************************************)
\* the places where a count and the word day follow a "last" in the text
CountsAfterLast(s) ==
  { q \in 1..Len(s) :
      /\ DaysMatchAt(s, q)
      /\ (q = 1 \/ ~IsDigit(CharAt(s, q - 1)))
      /\ \E p \in 1..(q - 4) : PyLower(SubSeq(s, p, p + 3)) = "last" }

C19_RelativeRule ==
  Returned("parse_date") =>
    LET s == call.value.s
        found == CountsAfterLast(s)
    IN IF found = {}
         THEN call.rule # "relative"
         ELSE \E q \in found :
                call.ret = Return(PyStr(strftime(
                             today - ParseNat(SubSeq(s, q, RunEnd(s, q))))))

(***************************************************************************)
(* C20.  When fuzzy date parsing fails, parse_date returns the text it was *)
(* given, character for character, and raises no exception.                *)
(***************************************************************************)
C20_UnparsedVerbatim ==
  (Returned("parse_date") /\ call.rule = "unparsed")
    => call.ret = Return(call.value)

(***************************************************************************)
(* C21.  End-to-end composition.  The filter of every candidate that       *)
(* validates is (normalize_field_name(field), normalize_operator(operator),*)
(* normalized value), the value being normalized with the declared type of *)
(* the canonical field, element by element with length and order kept     *)
(* when the raw value is a list.  So sex / is / "female" gives gender =    *)
(* "Female" and rating / in range / [3, 5] gives store_rating between      *)
(* [3.0, 5.0], each without any error.                                     *)
(***************************************************************************)
ComposedOf(f, c) ==
  LET field == normalize_field_name(Get(c.field, PyStr(""))).val
      raw == Get(c.value, PyNone)
  IN /\ f.field = field
     /\ f.operator = normalize_operator(Get(c.operator, PyStr(""))).val
     /\ IF IsList(raw)
          THEN /\ IsList(f.value)
               /\ Len(f.value.l) = Len(raw.l)
               /\ \A j \in 1..Len(raw.l) :
                    f.value.l[j]
                      = normalize_value(field.s, raw.l[j],
                                        DeclaredType(field.s), today).val
          ELSE f.value
                 = normalize_value(field.s, raw, DeclaredType(field.s),
                                   today).val

\* candidate p gave the filter f and no error record
Gives(p, f) ==
  /\ \E k \in FiltersOf(p) : result.validated_filters[k] = f
  /\ RecordsOf(p, NodeErrors) = <<>>

C21_EndToEndComposition ==
  Done =>
    /\ \A k \in 1..Len(origin) :
         ComposedOf(result.validated_filters[k], CandidateAt(origin[k]))
    /\ \A p \in 1..NumCandidates :
         /\ CandidateAt(p)
              = Candidate(PyStr("sex"), PyStr("is"), PyStr("female"))
            => Gives(p, [field |-> PyStr("gender"), operator |-> PyStr("="),
                         value |-> PyStr("Female")])
         /\ CandidateAt(p)
              = Candidate(PyStr("rating"), PyStr("in range"),
                          PyList(<<PyInt(3), PyInt(5)>>))
            => Gives(p, [field |-> PyStr("store_rating"),
                         operator |-> PyStr("between"),
                         value |-> PyList(<<PyFloat(30), PyFloat(50)>>)])

C21_Witness ==
  /\ Done
  /\ NumCandidates = 2
  /\ CandidateAt(1) = Candidate(PyStr("sex"), PyStr("is"), PyStr("female"))
  /\ CandidateAt(2)
       = Candidate(PyStr("rating"), PyStr("in range"),
                   PyList(<<PyInt(3), PyInt(5)>>))
  /\ Len(result.validated_filters) = 2
  /\ NodeErrors = <<>>

(***************************************************************************)
(* C22.  Per-candidate independence.  What a candidate leaves in the       *)
(* returned state (its filter, or its error records apart from the         *)
(* position prefix) is what the same candidate leaves when it is alone in  *)
(* the batch, whichever candidates precede or follow it.                   *)
(***************************************************************************)
\* the outcome of a batch that holds the candidate alone
Alone(c) == ProcessCandidate(c, 0, today)

\* the records of position p without their "Filter <p>: " prefix
Unprefixed(errs, p) ==
  [k \in 1..Len(errs) |->
     SubSeq(errs[k], Len(FilterPrefix(p - 1)) + 1, Len(errs[k]))]

C22_CandidateIndependence ==
  Done =>
    \A p \in 1..NumCandidates :
      /\ Cardinality(FiltersOf(p)) = Len(Alone(CandidateAt(p)).filters)
      /\ \A k \in FiltersOf(p) :
           <<result.validated_filters[k]>> = Alone(CandidateAt(p)).filters
      /\ Unprefixed(RecordsOf(p, NodeErrors), p)
           = Unprefixed(Alone(CandidateAt(p)).errors, 1)

C22_Witness ==
  /\ Done
  /\ NumCandidates = 2
  /\ CandidateAt(1) = Candidate(PyStr("gender"), PyStr("invalid_op"), PyStr(""))
  /\ CandidateAt(2) = Candidate(PyStr("sex"), PyStr("is"), PyStr("female"))
  /\ Len(RecordsOf(1, NodeErrors)) = 3
  /\ Cardinality(FiltersOf(2)) = 1

(***************************************************************************)
(* C25.  For a filter whose field is in the catalog, validate_filter       *)
(* evaluates rules 2 to 5 without short-circuiting: it returns one message *)
(* per violated rule, in rule order (unsupported operator, operator/type   *)
(* mismatch, missing value, malformed range), so that an operator outside  *)
(* the operator set does not suppress the later checks.                    *)
(***************************************************************************)
CatalogFieldCall ==
  /\ call.pc = "returned"
  /\ IsStr(call.filter_dict.field)
  /\ InList(call.filter_dict.field.s, AllFields)

\* the text of a value inside a message
Shown(v) == IF IsStr(v) THEN v.s ELSE IF v.t = "NoneType" THEN "None"
            ELSE PyFormat(v)

OperatorUnknown(o) == ~(IsStr(o) /\ InList(o.s, C12_Canonical))

OperatorIllegal(f, o) ==
  ~(IsStr(o) /\ InList(o.s, Lookup(load_supported_fields.valid_operators_per_type,
                                   DeclaredType(f.s), <<>>)))

MismatchText(f, o) ==
  "Operator '" \o Shown(o) \o "' is not valid for field '" \o f.s
    \o "' of type '" \o DeclaredType(f.s) \o "'"

C25_Expected(f, o, v) ==
  (IF OperatorUnknown(o)
     THEN <<"Unsupported operator: " \o Shown(o)>> ELSE <<>>)
  \o (IF OperatorIllegal(f, o) THEN <<MismatchText(f, o)>> ELSE <<>>)
  \o (IF RawValueMissing(v)
     THEN <<"Missing value for field: " \o f.s>> ELSE <<>>)
  \o (IF o = PyStr("between") /\ ~IsPair(v)
     THEN <<"Operator 'between' requires a list of two values for field: "
              \o f.s>>
     ELSE <<>>)

C25_AllRulesAccumulate ==
  CatalogFieldCall =>
    call.errors = C25_Expected(call.filter_dict.field,
                               call.filter_dict.operator,
                               call.filter_dict.value)

C25_Witness ==
  /\ call.pc = "returned"
  /\ call.filter_dict
       = Candidate(PyStr("gender"), PyStr("invalid_op"), PyStr("  "))
  /\ Len(call.errors) = 3
  /\ call.errors[1] = "Unsupported operator: invalid_op"

RunAlone(prompt, llm, now) ==
  output_node(
    validation_node(
      parsing_node(input_node(initial_state(prompt)), llm).val, now).val)

GraphReturned(r) == requests # <<>> /\ requests[r].pc \in {"END", "done"}

\* the agent state st has the results of the state alone
SameResults(st, alone) ==
  /\ st.validated_filters = alone.validated_filters
  /\ st.errors = alone.errors
  /\ st.output = alone.output

C23_ResultsAsAlone ==
  \A r \in DOMAIN requests :
    GraphReturned(r) =>
      SameResults(requests[r].st,
                  RunAlone(requests[r].prompt, requests[r].llm, today))

\* another request is in flight during this step
OthersInFlight ==
  \E r \in DOMAIN requests :
    requests[r].pc # "done" /\ requests'[r] = requests[r]

Begun == { r \in DOMAIN requests : requests[r].pc # "received" }

C24_NoFurtherLoad ==
  [][/\ process'.catalog_loads = process.catalog_loads
     /\ process'.mapping_loads = process.mapping_loads]_vars

(***************************************************************************)
(* C27: the route answers 400 exactly when the output has a non-empty      *)
(* error list and no validated filter; with at least one validated filter  *)
(* it answers 200 with the validated filters, errors or not; with neither  *)
(* filters nor errors it answers 200 with an empty filter list.            *)
(***************************************************************************)
Answers(r) == requests # <<>> /\ requests[r].pc = "done"

OutputFilters(r) == Get(requests[r].st.output.filters, PyList(<<>>)).l
OutputErrors(r) == Get(requests[r].st.output.errors, PyList(<<>>)).l

C27_StatusFollowsOutput ==
  \A r \in DOMAIN requests :
    Answers(r) =>
      /\ requests[r].response.status = 400
           <=> (Len(OutputErrors(r)) > 0 /\ Len(OutputFilters(r)) = 0)
      /\ Len(OutputFilters(r)) > 0 =>
           /\ requests[r].response.status = 200
           /\ requests[r].response.filters = OutputFilters(r)
      /\ (Len(OutputFilters(r)) = 0 /\ Len(OutputErrors(r)) = 0) =>
           /\ requests[r].response.status = 200
           /\ requests[r].response.filters = <<>>

(***************************************************************************)
(* C28: every filter validation_node places in validated_filters is        *)
(* accepted by the response schema Filter, so the route never answers 500  *)
(* because of a validated filter.                                          *)
(***************************************************************************)
C28_ValidatedFitSchema ==
  \A r \in DOMAIN requests :
    /\ IsList(requests[r].st.validated_filters) =>
         \A k \in 1..Len(requests[r].st.validated_filters.l) :
           SchemaAccepts(requests[r].st.validated_filters.l[k])
    /\ requests[r].response.status # 500

(***************************************************************************)
(* C29: each invocation of the agent graph runs the four nodes exactly     *)
(* once each in the order input, parsing, validation, output, and then     *)
(* ends; the output node runs, and the state has an output with a filters  *)
(* list, on every invocation, also when the parsing node recorded an error.*)
(***************************************************************************)
NodeOrder == <<"input", "parsing", "validation", "output">>

C29_FourNodesInOrder ==
  \A r \in DOMAIN requests :
    /\ Len(requests[r].trace) <= Len(NodeOrder)
    /\ requests[r].trace = SubSeq(NodeOrder, 1, Len(requests[r].trace))
    /\ requests[r].pc \in {"input", "parsing", "validation", "output"} =>
         requests[r].pc = NodeOrder[Len(requests[r].trace) + 1]
    /\ requests[r].pc \in {"END", "done"} =>
         /\ requests[r].trace = NodeOrder
         /\ IsList(requests[r].st.output.filters)

\* an invocation whose parsing node recorded an error ran all four nodes
C29_Witness ==
  /\ requests # <<>>
  /\ requests[1].pc = "END"
  /\ requests[1].llm.kind = "invoke_raises"
  /\ requests[1].trace = NodeOrder
  /\ requests[1].st.output.filters = PyList(<<>>)
  /\ requests[1].st.output.errors
       = PyList(<<"Parsing error: Connection error.">>)

(***************************************************************************)
(* C30: when the language-model call or the extraction of its result       *)
(* fails, the failure is neither raised nor lost: parsing_node returns     *)
(* raw_filters = [] and appends one "Parsing error: <message>" entry to    *)
(* errors, validation_node keeps that entry ahead of its own errors and    *)
(* leaves the other keys alone, the output has no filter and an errors     *)
(* list with that entry, and the route answers 400.                        *)
(***************************************************************************)
\* the chain raised, or its result has no get(), or filters has no len()
LLMFailed(llm) ==
  \/ llm.kind \in {"init_raises", "invoke_raises"}
  \/ /\ llm.kind = "returns"
     /\ \/ llm.result.t # "dict"
        \/ ~Sized(Get(llm.result.filters, PyList(<<>>)))

\* str(e) of the exception of a failed call
FailureMessage(llm) ==
  IF llm.kind \in {"init_raises", "invoke_raises"} THEN llm.msg
  ELSE IF llm.result.t # "dict"
    THEN "'" \o llm.result.t \o "' object has no attribute 'get'"
  ELSE "object of type '" \o Get(llm.result.filters, PyList(<<>>)).t
         \o "' has no len()"

ParsingEntry(llm) == "Parsing error: " \o FailureMessage(llm)

Ran(r, node) ==
  \E k \in 1..Len(requests[r].trace) : requests[r].trace[k] = node

C30_ParsingFailureReported ==
  \A r \in DOMAIN requests :
    LLMFailed(requests[r].llm) =>
      /\ requests[r].pc # "raised"
      /\ Ran(r, "parsing") =>
           /\ requests[r].st.raw_filters = PyList(<<>>)
           /\ requests[r].st.errors = PyList(<<ParsingEntry(requests[r].llm)>>)
           /\ requests[r].st.prompt = PyStrip(requests[r].prompt)
           /\ requests[r].st.language \in {"en", "ar"}
      /\ Ran(r, "validation") =>
           requests[r].st.validated_filters = PyList(<<>>)
      /\ Ran(r, "output") =>
           /\ requests[r].st.output.filters = PyList(<<>>)
           /\ InList(ParsingEntry(requests[r].llm),
                     requests[r].st.output.errors.l)
      /\ requests[r].pc = "done" =>
           /\ requests[r].response.status = 400
           /\ InList(ParsingEntry(requests[r].llm),
                     requests[r].response.details)

\* the answer {"filters": null} ended in a 400 that names the failure
C30_Witness ==
  /\ requests # <<>>
  /\ requests[2].pc = "done"
  /\ requests[2].llm = LLMReturns([t |-> "dict", filters |-> PyNone])
  /\ requests[2].response.status = 400
  /\ requests[2].response.details
       = <<"Parsing error: object of type 'NoneType' has no len()">>

=============================================================================
